---------------------------- MODULE Spec2Model ----------------------------
(***************************************************************************)
(* Respiratory monitor: the BreathingAlarm hysteresis counter              *)
(* (breathing_monitor/breathing_alarm.py) and the CombinedServer telemetry *)
(* and video broadcast loops (breathing_monitor/combined_server.py).       *)
(***************************************************************************)
EXTENDS Integers, Sequences, FiniteSets, TLC

(***************************************************************************)
(* Bounds of the model.                                                    *)
(***************************************************************************)
\* thresholds["pending"] ranges over 0..MaxPending
MaxPending == 2
\* thresholds["active"] ranges over 0..MaxActive
MaxActive == 1
\* thresholds["validation"] ranges over 1..MaxValidation
MaxValidation == 3

\* Connections accepted per listener over a run.
MaxConn == 2
\* Sweeps the sensor delivers over a run (telemetry cycles).
MaxCycles == 2
\* Frames the camera delivers over a run (video cycles).
MaxFrames == 1
\* self.max_buffer_size (300 in the code), scaled down so that eviction
\* happens within MaxCycles appends.
max_buffer_size == 1

\* The two broadcast channels: telemetry (data_*) and video (video_*).
Channels == {"data", "video"}

\* The labels given to set_states (free strings in the code): the one the
\* alarm compares against, and one standing for every other label.
Labels == {"NoMovement", "Breathing"}

\* The observed run of consecutive updates is counted up to RunCap.
RunCap == MaxValidation + MaxPending + MaxActive + 1

Min(a, b) == IF a <= b THEN a ELSE b

VARIABLES
    \* ---- BreathingAlarm fields ----
    alarm_armed,        \* self.alarm_armed
    alarm_active,       \* self.alarm_active
    validation_count,   \* self.validation_count
    thresholds,         \* self.thresholds: [pending, active, validation]
    pending_state,      \* self.pending_state
    active_state,       \* self.active_state
    no_movement,        \* self.no_movement
    \* ---- observers of the alarm (history variables) ----
    op,                 \* the last BreathingAlarm call: [name, disarm, reps],
                        \* reps = 2 when the call before it was the same call
    pre,                \* the alarm's fields before the last call
    ever_armed,         \* arm_alarm has been called
    run,                \* the current run of consecutive "NoMovement" updates
    \* ---- CombinedServer fields ----
    is_running,         \* self.is_running
    camera,             \* self.camera: "None", "started", "stopped"
    radar_client,       \* self.radar_client: "None", "session", "stopped"
    server_socket,      \* [ch]: self.video_server_socket / data_server_socket:
                        \* "None", "listening", "closed"
    clients,            \* [ch]: self.video_clients / self.data_clients (lists)
    waveform_buffer,    \* self.waveform_buffer (list of snapshots)
    \* ---- threads of CombinedServer ----
    m_pc,               \* main thread: main(), start() and stop()
    stop_from,          \* where the stop() under way was called from
    stop_calls,         \* calls of stop() so far (history variable)
    a_pc,               \* [ch]: acceptor thread (start_*_server)
    handlers,           \* [ch]: connections whose handle_*_client thread runs
    b_pc,               \* [ch]: broadcaster thread (process_breathing_data /
                        \* capture_and_stream_video)
    payload,            \* [ch]: json_data / frame_data of the current cycle
    send_i,             \* [ch]: position of `for client in self.*_clients`
    disconnected_clients, \* [ch]: the local list of the current broadcast
    \* ---- environment: sockets, sensor, camera ----
    accepted,           \* [ch]: connections accepted so far
    closed,             \* [ch]: connections on which the server called close()
    recv,               \* [ch][c]: the frames written to connection c
    produced,           \* [ch]: sweeps read / frames captured so far
    sweep,              \* the window get_next() returned (raw_waveform)
    focus,              \* the channel whose threads are scheduled
    \* ---- observers of the server (history variables) ----
    cycle_steps,        \* the steps of the current telemetry cycle, in order
    appended,           \* snapshots appended to waveform_buffer so far
    registered,         \* [ch]: connections their handler has appended
    bcast,              \* [ch]: the current or last broadcast
    \* ---- main() of breathing_monitor/main.py ----
    args_resolution,    \* args.resolution: the --resolution string
    resolution,         \* the local `resolution`: <<width, height>>
    main_pc,            \* where main() is
    exit_status,        \* the exit status of the process, once it has exited
    \* ---- the classification of one telemetry cycle ----
    cleaned_waveform,   \* the cleaned window, in hundredths (1 = 0.01)
    motion_state,       \* the local `motion_state`
    alert,              \* the local `alert`
    \* ---- RespiratoryMonitoring (respiratory_monitoring.py) ----
    client,             \* self.client: "None" or "session"
    conn,               \* self.conn: "None" or "open"
    mon_pc,             \* where the get_breathing_data thread is
    notifying,          \* a call of _send_push_notification is under way
    \* ---- main() of breathing_app.py (line-mode telemetry) ----
    ref_app_result,     \* the local `ref_app_result` of the iteration
    displayed_breathing_rate, \* the local of that name (<<>> for None)
    status_message,     \* the local `status_message`
    sent,               \* the lines sent on conn in the current iteration
    app_pc,             \* where main() is
    \* ---- VideoStreaming (sandbox/video_streaming.py) ----
    vs_server_socket,   \* self.server_socket: "None", "listening", "closed"
    vs_connection,      \* self.connection: "None", "open", "closed"
    vs_camera,          \* self.camera: "None", "created", "started", "stopped"
    vs_pc,              \* where start_streaming() is
    vs_accepted,        \* connections accepted so far
    streamed,           \* the frame sizes sent on the current connection
    \* ---- sandbox/breathing_app.py ----
    sb_server,          \* the listening socket: "None", "listening", "closed"
    sb_conn,            \* conn: "None", "open", "closed"
    sb_pc,              \* where main() is
    sb_result,          \* ref_app_result of the cycle
    sb_status,          \* status_message, a local of main()
    sb_sent,            \* the line sent in the cycle, if any
    sb_retries,         \* failed accept() calls since the last connection
    probe,              \* observer: a result picked beforehand
    probe_line          \* observer: the first line sent for that result

alarm_fields == <<alarm_armed, alarm_active, validation_count, thresholds,
                  pending_state, active_state, no_movement>>
alarm_obs    == <<op, pre, ever_armed, run>>
alarm_vars   == <<alarm_fields, alarm_obs>>

server_fields == <<is_running, camera, radar_client, server_socket, clients,
                   waveform_buffer>>
main_thread == <<m_pc, stop_from, stop_calls>>
server_threads == <<main_thread, a_pc, handlers, b_pc, payload, send_i,
                    disconnected_clients>>
server_env == <<accepted, closed, recv, produced, sweep>>
server_obs == <<cycle_steps, appended, registered, bcast>>
server_vars == <<server_fields, server_threads, server_env, server_obs,
                 focus>>

entry_vars == <<args_resolution, resolution, main_pc, exit_status>>

cycle_vars == <<cleaned_waveform, motion_state, alert>>

monitor_vars == <<client, conn, mon_pc, notifying>>

app_vars == <<ref_app_result, displayed_breathing_rate, status_message,
              sent, app_pc>>

streaming_vars == <<vs_server_socket, vs_connection, vs_camera, vs_pc,
                    vs_accepted, streamed>>

session_vars == <<sb_server, sb_conn, sb_pc, sb_result, sb_status, sb_sent,
                  sb_retries, probe, probe_line>>

\* The variables of the smaller programs of the repository.
program_vars == <<entry_vars, cycle_vars, monitor_vars, app_vars,
                  streaming_vars, session_vars>>

\* What the steps of one of them leave alone.
beside_entry == <<alarm_vars, server_vars, cycle_vars, monitor_vars,
                  app_vars, streaming_vars, session_vars>>
beside_cycle == <<alarm_vars, server_vars, entry_vars, monitor_vars,
                  app_vars, streaming_vars, session_vars>>
beside_monitor == <<alarm_vars, server_vars, entry_vars, app_vars,
                    streaming_vars, session_vars>>
beside_app == <<alarm_vars, server_vars, entry_vars, cycle_vars,
                monitor_vars, streaming_vars, session_vars>>
beside_streaming == <<alarm_vars, server_vars, entry_vars, cycle_vars,
                      monitor_vars, app_vars, session_vars>>
beside_session == <<alarm_vars, server_vars, entry_vars, cycle_vars,
                    monitor_vars, app_vars, streaming_vars>>

vars == <<alarm_vars, server_vars, program_vars>>

(***************************************************************************)
(* BreathingAlarm                                                          *)
(***************************************************************************)

\* The fields of the alarm as one record (used by the observers).
AlarmState ==
    [alarm_armed |-> alarm_armed, alarm_active |-> alarm_active,
     validation_count |-> validation_count, thresholds |-> thresholds,
     pending_state |-> pending_state, active_state |-> active_state,
     no_movement |-> no_movement]

\* Variant of alarm_count_limit: the wider cap whatever the active label is.
alarm_count_limit_wide(active, th) == th.pending + th.active

\* Variant of alarm_count_limit: the two caps are the wrong way round.
alarm_count_limit_swapped(active, th) ==
    IF active # "NoMovement" THEN th.pending + th.active ELSE th.pending

\* update_alarm_state, lines 17-19: the cap in effect for this update.
alarm_count_limit(active, th) ==
    IF active # "NoMovement" THEN th.pending ELSE th.pending + th.active

\* Variant of count_after_update: the increment test is off by one (<=).
count_after_update_le(count, pending, limit) ==
    IF pending = "NoMovement"
    THEN IF count <= limit THEN count + 1 ELSE count
    ELSE IF count > 0 THEN count - 1 ELSE count

\* Variant of count_after_update: the increment is not capped.
count_after_update_uncapped(count, pending, limit) ==
    IF pending = "NoMovement" THEN count + 1
    ELSE IF count > 0 THEN count - 1 ELSE count

\* update_alarm_state, lines 21-26: the counter after this update.
count_after_update(count, pending, limit) ==
    IF pending = "NoMovement"
    THEN IF count < limit THEN count + 1 ELSE count
    ELSE IF count > 0 THEN count - 1 ELSE count

\* Variant of validated: a strict comparison.
validated_strict(count, th) == count > th.validation

\* update_alarm_state, line 29: the activation test.
validated(count, th) == count >= th.validation

\* Variant of active_after_update: the flag follows the test, no latch.
active_after_update_unlatched(act, active) == act

\* activate_alarm, line 36, reached only when the activation test holds:
\* alarm_active after the update.
active_after_update(act, active) == IF act THEN TRUE ELSE active

\* Variant of armed_after_update: activation leaves alarm_armed alone.
armed_after_update_kept(act, armed) == armed

\* activate_alarm, line 37 ("Disarm after activation"): alarm_armed after
\* the update.
armed_after_update(act, armed) == IF act THEN FALSE ELSE armed

\* A run that starts in the given alarm state and has no update yet.
\*   n          consecutive updates with pending label "NoMovement" (<= RunCap)
\*   c0,armed0,active0   the counter and flags where the run started
\*   capOK      every update of the run had a cap >= validationLimit
\*   activeNM   some update of the run had the active label "NoMovement"
\*   rises      updates of the run at which alarm_active went false -> true
\*   riseAt     the index in the run of the last such update (0: none)
\*   riseDisarm alarm_armed went true -> false at that same update
FreshRun(armed, active, count) ==
    [n |-> 0, c0 |-> count, armed0 |-> armed, active0 |-> active,
     capOK |-> TRUE, activeNM |-> FALSE,
     rises |-> 0, riseAt |-> 0, riseDisarm |-> FALSE]

\* The run extended by one "NoMovement" update that led from the unprimed
\* alarm fields to (armed2, active2).
ExtendRun(r, limit, armed2, active2) ==
    LET rose == ~alarm_active /\ active2
        k    == Min(r.n + 1, RunCap)
    IN [r EXCEPT !.n = k,
                 !.capOK = r.capOK /\ limit >= thresholds.validation,
                 !.activeNM = r.activeNM \/ active_state = "NoMovement",
                 !.rises = IF rose THEN Min(r.rises + 1, 2) ELSE r.rises,
                 !.riseAt = IF rose THEN k ELSE r.riseAt,
                 !.riseDisarm = IF rose THEN alarm_armed /\ ~armed2
                                ELSE r.riseDisarm]

\* The record of a call, given the call before it (op).
Called(name, disarm) ==
    [name |-> name, disarm |-> disarm,
     reps |-> IF op.name = name /\ op.disarm = disarm THEN 2 ELSE 1]

\* BreathingAlarm.__init__(thresholds)
AlarmInit ==
    /\ alarm_armed = FALSE
    /\ alarm_active = FALSE
    /\ validation_count = 0
    /\ thresholds \in [pending : 0..MaxPending, active : 0..MaxActive,
                       validation : 1..MaxValidation]
    /\ pending_state = "Initializing"
    /\ active_state = "Initializing"
    /\ no_movement = FALSE
    /\ op = [name |-> "__init__", disarm |-> FALSE, reps |-> 1]
    /\ pre = [alarm_armed |-> FALSE, alarm_active |-> FALSE,
              validation_count |-> 0, thresholds |-> thresholds,
              pending_state |-> "Initializing",
              active_state |-> "Initializing", no_movement |-> FALSE]
    /\ ever_armed = FALSE
    /\ run = FreshRun(FALSE, FALSE, 0)

\* BreathingAlarm.update_alarm_state() with activate_alarm() inlined.
\* `restart` lets the observed run begin at this update.
update_alarm_state ==
    \E restart \in BOOLEAN :
        LET limit == alarm_count_limit(active_state, thresholds)
            cnt   == count_after_update(validation_count, pending_state, limit)
            act   == validated(cnt, thresholds)
            armed2  == armed_after_update(act, alarm_armed)
            active2 == active_after_update(act, alarm_active)
            base  == IF restart
                     THEN FreshRun(alarm_armed, alarm_active, validation_count)
                     ELSE run
        IN /\ validation_count' = cnt
           /\ alarm_active' = active2
           /\ alarm_armed' = armed2
           /\ UNCHANGED <<thresholds, pending_state, active_state, no_movement>>
           /\ op' = Called("update_alarm_state", FALSE)
           /\ pre' = AlarmState
           /\ UNCHANGED ever_armed
           /\ run' = IF pending_state = "NoMovement"
                     THEN ExtendRun(base, limit, armed2, active2)
                     ELSE FreshRun(armed2, active2, cnt)
    /\ UNCHANGED <<server_vars, program_vars>>

\* Variant of reset_alarm: the counter is cleared only inside the
\* `if self.alarm_active` branch.
reset_alarm_count_in_branch ==
    \E disarm \in BOOLEAN :
        /\ alarm_armed' = IF disarm THEN FALSE ELSE alarm_armed
        /\ validation_count' = IF alarm_active THEN 0 ELSE validation_count
        /\ alarm_active' = FALSE
        /\ UNCHANGED <<thresholds, pending_state, active_state, no_movement>>
        /\ op' = Called("reset_alarm", disarm)
        /\ pre' = AlarmState
        /\ UNCHANGED ever_armed
        /\ run' = FreshRun(alarm_armed', FALSE, validation_count')
    /\ UNCHANGED <<server_vars, program_vars>>

\* BreathingAlarm.reset_alarm(disarm)
reset_alarm ==
    \E disarm \in BOOLEAN :
        /\ alarm_armed' = IF disarm THEN FALSE ELSE alarm_armed
        /\ validation_count' = 0
        /\ alarm_active' = FALSE
        /\ UNCHANGED <<thresholds, pending_state, active_state, no_movement>>
        /\ op' = Called("reset_alarm", disarm)
        /\ pre' = AlarmState
        /\ UNCHANGED ever_armed
        /\ run' = FreshRun(alarm_armed', FALSE, 0)
    /\ UNCHANGED <<server_vars, program_vars>>

\* Variant of arm_alarm: arming also clears the counter.
arm_alarm_clears_count ==
    /\ alarm_armed' = TRUE
    /\ validation_count' = 0
    /\ UNCHANGED <<alarm_active, thresholds, pending_state, active_state,
                   no_movement>>
    /\ op' = Called("arm_alarm", FALSE)
    /\ pre' = AlarmState
    /\ ever_armed' = TRUE
    /\ run' = FreshRun(TRUE, alarm_active, 0)
    /\ UNCHANGED <<server_vars, program_vars>>

\* BreathingAlarm.arm_alarm()
arm_alarm ==
    /\ alarm_armed' = TRUE
    /\ UNCHANGED <<alarm_active, validation_count, thresholds, pending_state,
                   active_state, no_movement>>
    /\ op' = Called("arm_alarm", FALSE)
    /\ pre' = AlarmState
    /\ ever_armed' = TRUE
    /\ run' = FreshRun(TRUE, alarm_active, validation_count)
    /\ UNCHANGED <<server_vars, program_vars>>

\* BreathingAlarm.set_states(pending, active)
set_states ==
    \E p \in Labels, a \in Labels :
        /\ pending_state' = p
        /\ active_state' = a
        /\ UNCHANGED <<alarm_armed, alarm_active, validation_count, thresholds,
                       no_movement>>
        /\ op' = Called("set_states", FALSE)
        /\ pre' = AlarmState
        /\ UNCHANGED <<ever_armed, run>>
    /\ UNCHANGED <<server_vars, program_vars>>

AlarmNext ==
    \/ update_alarm_state
    \/ reset_alarm
    \/ arm_alarm
    \/ set_states


(***************************************************************************)
(* CombinedServer                                                          *)
(***************************************************************************)

Range(q) == {q[i] : i \in 1..Len(q)}

\* `window_length=11` of _apply_savgol_filter, line 107.
window_length == 11

\* The windows a sweep can be: as long as the smoothing stage needs or one
\* sample shorter, all zero or not.
Windows == [len : {window_length - 1, window_length}, zero : BOOLEAN]

\* No sweep is being processed.
NoSweep == [len |-> 0, zero |-> TRUE]

\* What one behaviour may use: the connections per channel, the sweeps and
\* the frames of the bounds when the threads of one channel are followed,
\* one of each when those of both channels are.
ConnLimit == IF focus = "both" THEN 1 ELSE MaxConn
CycleLimit == IF focus = "both" THEN 1 ELSE MaxCycles
FrameLimit == IF focus = "both" THEN 1 ELSE MaxFrames

\* The observer of a channel on which no broadcast is under way or just over.
NoBroadcast == [started |-> FALSE, done |-> FALSE]

\* CombinedServer.__init__: the state before start().
ServerInit ==
    /\ is_running = TRUE
    /\ camera = "None"
    /\ radar_client = "None"
    /\ server_socket = [ch \in Channels |-> "None"]
    /\ clients = [ch \in Channels |-> <<>>]
    /\ waveform_buffer = <<>>
    /\ m_pc = "start"
    /\ stop_from = "none"
    /\ stop_calls = 0
    /\ a_pc = [ch \in Channels |-> "unstarted"]
    /\ handlers = [ch \in Channels |-> {}]
    /\ b_pc = [ch \in Channels |-> "unstarted"]
    /\ payload = [ch \in Channels |-> 0]
    /\ send_i = [ch \in Channels |-> 0]
    /\ disconnected_clients = [ch \in Channels |-> <<>>]
    /\ accepted = [ch \in Channels |-> 0]
    /\ closed = [ch \in Channels |-> {}]
    /\ recv = [ch \in Channels |-> [c \in 1..MaxConn |-> <<>>]]
    /\ produced = [ch \in Channels |-> 0]
    /\ sweep = NoSweep
    /\ cycle_steps = <<>>
    /\ appended = 0
    /\ registered = [ch \in Channels |-> {}]
    /\ bcast = [ch \in Channels |-> NoBroadcast]

(*------------------------- main thread: start ---------------------------*)

\* stop(), lines 325-326, entered from `where`: the log line and
\* is_running = False.
call_stop(where) ==
    /\ is_running' = FALSE
    /\ m_pc' = "stop_clients"
    /\ stop_from' = where
    /\ stop_calls' = stop_calls + 1

\* start(), lines 298-313: start_camera(), then the four daemon threads.
start ==
    /\ m_pc = "start"
    /\ camera' = "started"
    /\ a_pc' = [ch \in Channels |-> "bind"]
    /\ b_pc' = [b_pc EXCEPT !["data"] = "setup", !["video"] = "loop"]
    /\ m_pc' = "running"
    /\ UNCHANGED <<is_running, radar_client, server_socket, clients,
                   waveform_buffer, stop_from, stop_calls, handlers,
                   payload, send_i, disconnected_clients, server_env,
                   server_obs>>
    /\ UNCHANGED <<alarm_vars, focus, program_vars>>

\* start_camera() raises, lines 65-74 and 301: in Picamera2() (self.camera
\* stays None) or in configure() / start() (self.camera is set, the camera
\* not started).  The call is outside the try of start(), so the exception
\* reaches main(), main.py lines 82-85, whose finally calls server.stop().
start_camera_error ==
    /\ m_pc = "start"
    /\ \E c \in {"None", "configured"} : camera' = c
    /\ call_stop("main")
    /\ UNCHANGED <<radar_client, server_socket, clients, waveform_buffer,
                   a_pc, handlers, b_pc, payload, send_i,
                   disconnected_clients, server_env, server_obs>>
    /\ UNCHANGED <<alarm_vars, focus, program_vars>>

(*----------------------------- acceptors --------------------------------*)

\* start_video_server / start_data_server, lines 267-272 / 283-287:
\* socket(), bind(), listen().  bind() raises when the port is taken: the
\* thread ends with the socket created and not listening.
bind_listener(ch) ==
    /\ a_pc[ch] = "bind"
    /\ \E ok \in BOOLEAN :
        /\ server_socket' = [server_socket EXCEPT
                                ![ch] = IF ok THEN "listening" ELSE "unbound"]
        /\ a_pc' = [a_pc EXCEPT ![ch] = IF ok THEN "check" ELSE "done"]
    /\ UNCHANGED <<is_running, camera, radar_client, clients, waveform_buffer,
                   main_thread, handlers, b_pc, payload, send_i,
                   disconnected_clients, server_env, server_obs>>
    /\ UNCHANGED <<alarm_vars, focus, program_vars>>

\* `while self.is_running:` of the accept loop, lines 274 / 289.
accept_check(ch) ==
    /\ a_pc[ch] = "check"
    /\ a_pc' = [a_pc EXCEPT ![ch] = IF is_running THEN "accept" ELSE "done"]
    /\ UNCHANGED <<server_fields, main_thread, handlers, b_pc, payload,
                   send_i, disconnected_clients, server_env, server_obs>>
    /\ UNCHANGED <<alarm_vars, focus, program_vars>>

\* accept() returns a connection and its handler thread is started,
\* lines 276-277 / 291-292.
accept_connection(ch) ==
    /\ a_pc[ch] = "accept"
    /\ server_socket[ch] = "listening"
    /\ accepted[ch] < ConnLimit
    /\ accepted' = [accepted EXCEPT ![ch] = @ + 1]
    /\ handlers' = [handlers EXCEPT ![ch] = @ \cup {accepted[ch] + 1}]
    /\ a_pc' = [a_pc EXCEPT ![ch] = "check"]
    /\ UNCHANGED <<server_fields, main_thread, b_pc, payload, send_i,
                   disconnected_clients, closed, recv, produced, sweep,
                   server_obs>>
    /\ UNCHANGED <<alarm_vars, focus, program_vars>>

\* accept() raises (the listening socket was closed by stop(), or a
\* transient error), lines 278-280 / 293-295: logged, back to the loop test.
accept_error(ch) ==
    /\ a_pc[ch] = "accept"
    /\ a_pc' = [a_pc EXCEPT ![ch] = "check"]
    /\ UNCHANGED <<server_fields, main_thread, handlers, b_pc, payload,
                   send_i, disconnected_clients, server_env, server_obs>>
    /\ UNCHANGED <<alarm_vars, focus, program_vars>>

\* Variant: both handlers append to video_clients.
own_registry_video(ch) == "video"

\* The list a handler appends to: handle_video_client to video_clients
\* (line 260), handle_data_client to data_clients (line 264).
own_registry(ch) == ch

\* handle_video_client / handle_data_client, lines 258-264: getpeername()
\* for the log line, then the append to the registry.  getpeername() raises
\* when the peer is already gone: the thread ends before the append.
handle_client(ch) ==
    \E c \in handlers[ch], peer_ok \in BOOLEAN :
        /\ handlers' = [handlers EXCEPT ![ch] = @ \ {c}]
        /\ clients' = [clients EXCEPT
                          ![own_registry(ch)] =
                              IF peer_ok THEN Append(@, c) ELSE @]
        /\ registered' = [registered EXCEPT
                             ![own_registry(ch)] =
                                 IF peer_ok THEN @ \cup {c} ELSE @]
        /\ UNCHANGED <<is_running, camera, radar_client, server_socket,
                       waveform_buffer, main_thread, a_pc, b_pc, payload,
                       send_i, disconnected_clients, server_env,
                       cycle_steps, appended, bcast>>
    /\ UNCHANGED <<alarm_vars, focus, program_vars>>

(*----------------------- the broadcast of one cycle ---------------------*)

\* Variant of pack_I: the four bytes least significant first ('<I').
pack_I_little(n) ==
    <<n % 256, (n \div 256) % 256, (n \div 65536) % 256,
      (n \div 16777216) % 256>>

\* struct.pack('!I', n) / struct.pack(">L", n), lines 193 / 233: the four
\* bytes of the unsigned n, most significant first (n < 2^32: pack raises
\* beyond that, which no payload here comes near).
pack_I(n) ==
    <<(n \div 16777216) % 256, (n \div 65536) % 256, (n \div 256) % 256,
      n % 256>>

\* json.dumps(data_packet).encode('utf-8') / stream.getvalue(), lines 186 /
\* 225: the bytes of the payload made from snapshot or frame number k.  The
\* bytes are modelled as k bytes of value k, so that the payloads of two
\* cycles differ in content and in length.
encoded(k) == [i \in 1..k |-> k]

\* What sendall(struct.pack(..., len(data))) followed by sendall(data) adds
\* to the stream of a connection, lines 193-195 / 233-235: the prefix
\* (len_of) and the payload bytes (body), written
\*   "ok"           both writes complete: the whole frame
\*   "fail_prefix"  the first write raises
\*   "fail_payload" the first completes, the second raises
\* A sendall that raises has written an unknown part of its bytes: the frame
\* is cut somewhere.
written(data, outcome) ==
    [len_of |-> pack_I(Len(encoded(data))), body |-> encoded(data),
     part |-> IF outcome = "ok" THEN "whole" ELSE "cut"]

\* The outcomes a write to connection c can have: a socket the server has
\* closed raises at the first write; an open one may fail at any point.
send_outcomes(ch, c) ==
    IF c \in closed[ch] THEN {"fail_prefix"}
    ELSE {"ok", "fail_prefix", "fail_payload"}

\* Variant of next_client: the loop passes over every second client.
next_client_skip(i, failed, n) == i + 2

\* Variant of next_client: the loop is left at the first failing client.
next_client_break(i, failed, n) == IF failed THEN n + 1 ELSE i + 1

\* `for client in self.*_clients`: the position after the body ran for
\* position i of a list of length n (an exception inside the body is caught
\* there, lines 196-200 / 236-240, and the loop goes on).
next_client(i, failed, n) == i + 1

\* Variant of without_disconnected: one failed client empties the registry.
without_disconnected_all(reg, disc) == IF disc = <<>> THEN reg ELSE <<>>

\* lines 203-205 / 243-245: the registry with every client of the local
\* list `disconnected_clients` removed.
without_disconnected(reg, disc) ==
    SelectSeq(reg, LAMBDA c : c \notin Range(disc))

\* The start of `for client in self.*_clients:` with the encoded data of
\* this cycle, lines 186-189 / 225-229.
begin_send(ch, data) ==
    /\ payload' = [payload EXCEPT ![ch] = data]
    /\ send_i' = [send_i EXCEPT ![ch] = 1]
    /\ disconnected_clients' = [disconnected_clients EXCEPT ![ch] = <<>>]
    /\ b_pc' = [b_pc EXCEPT ![ch] = "send_loop"]
    /\ bcast' = [bcast EXCEPT ![ch] =
                    [started |-> TRUE, done |-> FALSE, data |-> data,
                     before |-> Range(clients[ch]), failed |-> {},
                     removed |-> {}, after |-> {}]]

\* Variant of no_clients: the registry is never taken to be empty.
no_clients_never(reg) == FALSE

\* `not self.data_clients` / `not self.video_clients`, lines 171 / 218.
no_clients(reg) == reg = <<>>

\* Variant of registry_of: both loops walk self.data_clients.
registry_of_data(ch) == "data"

\* The registry a broadcaster walks and prunes: self.data_clients in
\* send_breathing_data_to_clients (lines 190, 203-205), self.video_clients
\* in capture_and_stream_video (lines 230, 243-245).
registry_of(ch) == ch

\* One iteration of the send loop, lines 190-200 / 230-240; past the end of
\* the list the loop is over.
send_to_client(ch) ==
    /\ b_pc[ch] = "send_loop"
    /\ LET r == registry_of(ch)
       IN IF send_i[ch] <= Len(clients[r])
          THEN LET c == clients[r][send_i[ch]]
               IN \E outcome \in send_outcomes(r, c) :
                    LET failed == outcome # "ok"
                    IN /\ recv' = [recv EXCEPT ![r][c] =
                                      Append(@, written(payload[ch], outcome))]
                       /\ disconnected_clients' =
                             [disconnected_clients EXCEPT
                                 ![ch] = IF failed THEN Append(@, c) ELSE @]
                       /\ send_i' = [send_i EXCEPT
                             ![ch] = next_client(@, failed, Len(clients[r]))]
                       /\ bcast' = [bcast EXCEPT
                             ![ch].failed = IF failed THEN @ \cup {c} ELSE @]
                       /\ UNCHANGED b_pc
          ELSE /\ b_pc' = [b_pc EXCEPT ![ch] = "remove"]
               /\ UNCHANGED <<recv, disconnected_clients, send_i, bcast>>
    /\ UNCHANGED <<server_fields, main_thread, a_pc, handlers, payload,
                   accepted, closed, produced, sweep, cycle_steps,
                   appended, registered>>
    /\ UNCHANGED <<alarm_vars, focus, program_vars>>

\* sendall() on the blocking socket that accept() returned (no timeout is
\* set anywhere), lines 193-195 / 233-235: when the peer does not read and
\* the buffers are full the call does not return.
send_stalls(ch) ==
    /\ b_pc[ch] = "send_loop"
    /\ send_i[ch] <= Len(clients[registry_of(ch)])
    /\ clients[registry_of(ch)][send_i[ch]] \notin closed[registry_of(ch)]
    /\ b_pc' = [b_pc EXCEPT ![ch] = "send_stalled"]
    /\ UNCHANGED <<server_fields, main_thread, a_pc, handlers, payload, send_i,
                   disconnected_clients, server_env, server_obs>>
    /\ UNCHANGED <<alarm_vars, focus, program_vars>>

\* The peer of a blocked sendall() reads again or resets the connection:
\* the call goes on, to return or to raise.
send_resumes(ch) ==
    /\ b_pc[ch] = "send_stalled"
    /\ b_pc' = [b_pc EXCEPT ![ch] = "send_loop"]
    /\ UNCHANGED <<server_fields, main_thread, a_pc, handlers, payload, send_i,
                   disconnected_clients, server_env, server_obs>>
    /\ UNCHANGED <<alarm_vars, focus, program_vars>>

\* The removal loop, lines 203-210 / 243-250: each disconnected client that
\* is in the registry is removed from it and closed; then the function's
\* locals are gone and the loop sleeps (line 159 / 253).
remove_disconnected(ch) ==
    /\ b_pc[ch] = "remove"
    /\ LET r    == registry_of(ch)
           reg  == without_disconnected(clients[r], disconnected_clients[ch])
           gone == Range(clients[r]) \ Range(reg)
       IN /\ clients' = [clients EXCEPT ![r] = reg]
          /\ closed' = [closed EXCEPT ![r] = @ \cup gone]
          /\ bcast' = [bcast EXCEPT ![ch].done = TRUE,
                                    ![ch].removed = gone,
                                    ![ch].after = Range(reg)]
    /\ payload' = [payload EXCEPT ![ch] = 0]
    /\ send_i' = [send_i EXCEPT ![ch] = 0]
    /\ disconnected_clients' = [disconnected_clients EXCEPT ![ch] = <<>>]
    /\ b_pc' = [b_pc EXCEPT ![ch] = "loop"]
    /\ UNCHANGED <<is_running, camera, radar_client, server_socket,
                   waveform_buffer, main_thread, a_pc, handlers, accepted, recv,
                   produced, sweep, cycle_steps, appended, registered>>
    /\ UNCHANGED <<alarm_vars, focus, program_vars>>

(*------------------ telemetry thread: process_breathing_data ------------*)

\* _setup_radar_client(), lines 76-90 and 117-119: the session is set up and
\* started, or the thread logs and returns.
setup_radar_client ==
    /\ b_pc["data"] = "setup"
    /\ \E ok \in BOOLEAN :
        /\ radar_client' = IF ok THEN "session" ELSE radar_client
        /\ b_pc' = [b_pc EXCEPT !["data"] = IF ok THEN "loop" ELSE "done"]
    /\ UNCHANGED <<is_running, camera, server_socket, clients,
                   waveform_buffer, main_thread, a_pc, handlers, payload,
                   send_i, disconnected_clients, server_env, server_obs>>
    /\ UNCHANGED <<alarm_vars, focus, program_vars>>

\* `while self.is_running:`, line 124.
telemetry_loop_test ==
    /\ b_pc["data"] = "loop"
    /\ b_pc' = [b_pc EXCEPT
                   !["data"] = IF is_running THEN "get_next" ELSE "finally"]
    /\ bcast' = [bcast EXCEPT !["data"] = NoBroadcast]
    /\ UNCHANGED <<server_fields, main_thread, a_pc, handlers, payload,
                   send_i, disconnected_clients, server_env, cycle_steps,
                   appended, registered>>
    /\ UNCHANGED <<alarm_vars, focus, program_vars>>

\* self.radar_client.get_next() returns a sweep, lines 126-127.
get_next ==
    /\ b_pc["data"] = "get_next"
    /\ radar_client = "session"
    /\ produced["data"] < CycleLimit
    /\ produced' = [produced EXCEPT !["data"] = @ + 1]
    /\ \E w \in Windows : sweep' = w
    /\ cycle_steps' = <<"read">>
    /\ b_pc' = [b_pc EXCEPT !["data"] = "process"]
    /\ UNCHANGED <<server_fields, main_thread, a_pc, handlers, payload,
                   send_i, disconnected_clients, accepted, closed, recv,
                   appended, registered, bcast>>
    /\ UNCHANGED <<alarm_vars, focus, program_vars>>

\* get_next() raises (sensor error, or the session was stopped by stop()):
\* caught by `except Exception` at line 161, which ends the loop.
get_next_error ==
    /\ b_pc["data"] = "get_next"
    /\ b_pc' = [b_pc EXCEPT !["data"] = "finally"]
    /\ UNCHANGED <<server_fields, main_thread, a_pc, handlers, payload,
                   send_i, disconnected_clients, server_env, server_obs>>
    /\ UNCHANGED <<alarm_vars, focus, program_vars>>

\* Variant of trim_buffer: the newest entry is dropped (pop() for pop(0)).
trim_buffer_newest(buf) ==
    IF Len(buf) > max_buffer_size THEN SubSeq(buf, 1, Len(buf) - 1) ELSE buf

\* lines 152-153: `if len(buf) > self.max_buffer_size: buf.pop(0)`.
trim_buffer(buf) ==
    IF Len(buf) > max_buffer_size THEN Tail(buf) ELSE buf

\* The filter cascade, lines 130-137: lfilter twice, the Kalman filter,
\* savgol_filter(data, 11, 3) and the FFT denoising.  savgol_filter in its
\* default mode 'interp' raises ValueError for a window shorter than
\* window_length; apart from that the stages return an array as long as
\* their input.
cascade_raises(w) == w.len < window_length

\* The rest of the cycle up to the broadcast, lines 130-153, all local to
\* the thread: the filter cascade, then motion_state and alert, then the
\* snapshot is appended and the buffer trimmed.  A filter that raises ends
\* the loop through line 161.  A snapshot is identified by the number of
\* the sweep it was made from.
process_sweep ==
    /\ b_pc["data"] = "process"
    /\ LET ok == ~cascade_raises(sweep)
       IN /\ b_pc' = [b_pc EXCEPT
                         !["data"] = IF ok THEN "send" ELSE "finally"]
          /\ cycle_steps' =
                IF ok
                THEN cycle_steps \o <<"condition", "classify", "append">>
                ELSE cycle_steps
          /\ waveform_buffer' =
                IF ok
                THEN trim_buffer(Append(waveform_buffer, produced["data"]))
                ELSE waveform_buffer
          /\ appended' = IF ok THEN appended + 1 ELSE appended
    /\ sweep' = NoSweep
    /\ UNCHANGED <<is_running, camera, radar_client, server_socket, clients,
                   main_thread, a_pc, handlers, payload, send_i,
                   disconnected_clients, accepted, closed, recv, produced,
                   registered, bcast>>
    /\ UNCHANGED <<alarm_vars, focus, program_vars>>

\* line 175: `latest_data = self.waveform_buffer[-1]`.
latest_data(buf) == buf[Len(buf)]

\* send_breathing_data_to_clients(), lines 170-189: return at once without
\* a buffer entry or without clients (then the sleep of line 159), else
\* encode the latest snapshot and start the send loop.
send_breathing_data_to_clients ==
    /\ b_pc["data"] = "send"
    /\ cycle_steps' = Append(cycle_steps, "broadcast")
    /\ IF waveform_buffer = <<>> \/ no_clients(clients["data"])
       THEN /\ b_pc' = [b_pc EXCEPT !["data"] = "loop"]
            /\ UNCHANGED <<payload, send_i, disconnected_clients, bcast>>
       ELSE begin_send("data", latest_data(waveform_buffer))
    /\ UNCHANGED <<server_fields, main_thread, a_pc, handlers, server_env,
                   appended, registered>>
    /\ UNCHANGED <<alarm_vars, focus, program_vars>>

\* `finally:` of process_breathing_data, lines 163-168.
telemetry_finally ==
    /\ b_pc["data"] = "finally"
    /\ radar_client' = IF radar_client = "None" THEN "None" ELSE "stopped"
    /\ b_pc' = [b_pc EXCEPT !["data"] = "done"]
    /\ UNCHANGED <<is_running, camera, server_socket, clients,
                   waveform_buffer, main_thread, a_pc, handlers, payload,
                   send_i, disconnected_clients, server_env, server_obs>>
    /\ UNCHANGED <<alarm_vars, focus, program_vars>>

(*------------------ video thread: capture_and_stream_video --------------*)

\* `while self.is_running:`, line 217.
video_loop_test ==
    /\ b_pc["video"] = "loop"
    /\ b_pc' = [b_pc EXCEPT
                   !["video"] = IF is_running THEN "clients_test" ELSE "done"]
    /\ bcast' = [bcast EXCEPT !["video"] = NoBroadcast]
    /\ UNCHANGED <<server_fields, main_thread, a_pc, handlers, payload,
                   send_i, disconnected_clients, server_env, cycle_steps,
                   appended, registered>>
    /\ UNCHANGED <<alarm_vars, focus, program_vars>>

\* lines 218-220: without video clients, sleep and `continue`.
video_clients_test ==
    /\ b_pc["video"] = "clients_test"
    /\ b_pc' = [b_pc EXCEPT
                   !["video"] = IF no_clients(clients["video"]) THEN "loop"
                                ELSE "capture"]
    /\ UNCHANGED <<server_fields, main_thread, a_pc, handlers, payload,
                   send_i, disconnected_clients, server_env, server_obs>>
    /\ UNCHANGED <<alarm_vars, focus, program_vars>>

\* lines 223-229: a frame is captured and the send loop starts.  A frame is
\* identified by its number.
capture_frame ==
    /\ b_pc["video"] = "capture"
    /\ camera = "started"
    /\ produced["video"] < FrameLimit
    /\ produced' = [produced EXCEPT !["video"] = @ + 1]
    /\ begin_send("video", produced["video"] + 1)
    /\ UNCHANGED <<server_fields, main_thread, a_pc, handlers, accepted,
                   closed, recv, sweep, cycle_steps, appended, registered>>
    /\ UNCHANGED <<alarm_vars, focus, program_vars>>

\* capture_file() raises (camera error, or the camera was stopped by
\* stop()): caught at line 255, outside the loop, which ends the thread.
capture_error ==
    /\ b_pc["video"] = "capture"
    /\ b_pc' = [b_pc EXCEPT !["video"] = "done"]
    /\ UNCHANGED <<server_fields, main_thread, a_pc, handlers, payload,
                   send_i, disconnected_clients, server_env, server_obs>>
    /\ UNCHANGED <<alarm_vars, focus, program_vars>>

(*------------------------- main thread: stop ----------------------------*)

\* Variant of leaves_try: the call is not guarded, its exception leaves
\* stop().
leaves_try_unguarded(raised) == raised

\* `try: ... except: pass` around every close and stop call of stop(),
\* lines 330-333, 337-340, 343-346, 350-353, 357-360: whether an exception
\* of the call leaves the try statement (the bare except catches it).
leaves_try(raised) == FALSE

\* What the close loop of stop(), lines 329-333, leaves closed.
closed_by_stop == [ch \in Channels |-> closed[ch] \cup Range(clients[ch])]

\* The listening sockets after lines 336-346 of stop().
sockets_after_stop ==
    [ch \in Channels |->
        IF server_socket[ch] = "None" THEN "None" ELSE "closed"]

\* A device handle after its `if self.<handle>:` block of stop(), lines
\* 349-360 ("stopped" stands for a handle on which the stop call has been
\* made, whether it raised or not).
handle_after_stop(handle) == IF handle = "None" THEN "None" ELSE "stopped"

\* KeyboardInterrupt in the `while self.is_running: time.sleep(1)` loop of
\* start(), lines 315-322: the finally of start() calls stop().
interrupt ==
    /\ m_pc = "running"
    /\ call_stop("start")
    /\ UNCHANGED <<camera, radar_client, server_socket, clients,
                   waveform_buffer, a_pc, handlers, b_pc, payload,
                   send_i, disconnected_clients, server_env, server_obs>>
    /\ UNCHANGED <<alarm_vars, focus, program_vars>>

\* stop(), lines 329-333: every client of the list
\* `self.video_clients + self.data_clients` is closed (the lists themselves
\* are left as they are); a close() may raise.
stop_close_clients ==
    /\ m_pc = "stop_clients"
    /\ closed' = closed_by_stop
    /\ \E raised \in BOOLEAN :
          m_pc' = IF leaves_try(raised) THEN "stop_raised" ELSE "stop_sockets"
    /\ UNCHANGED <<server_fields, stop_from, stop_calls, a_pc, handlers,
                   b_pc, payload, send_i, disconnected_clients, accepted,
                   recv, produced, sweep, server_obs>>
    /\ UNCHANGED <<alarm_vars, focus, program_vars>>

\* stop(), lines 336-346: each listening socket that is set is closed; a
\* close() may raise.
stop_close_sockets ==
    /\ m_pc = "stop_sockets"
    /\ server_socket' = sockets_after_stop
    /\ \E raised \in BOOLEAN :
          m_pc' = IF leaves_try(raised) THEN "stop_raised" ELSE "stop_devices"
    /\ UNCHANGED <<is_running, camera, radar_client, clients,
                   waveform_buffer, stop_from, stop_calls, a_pc, handlers,
                   b_pc, payload, send_i, disconnected_clients, server_env,
                   server_obs>>
    /\ UNCHANGED <<alarm_vars, focus, program_vars>>

\* stop(), lines 349-362: camera.stop() and radar_client.stop_session(),
\* each only when the handle is set, each may raise; then stop() returns to
\* the finally of start(), which returns to its caller, or to main().
stop_devices ==
    /\ m_pc = "stop_devices"
    /\ camera' = handle_after_stop(camera)
    /\ radar_client' = handle_after_stop(radar_client)
    /\ \E raised \in IF camera = "None" /\ radar_client = "None"
                      THEN {FALSE} ELSE BOOLEAN :
          m_pc' = IF leaves_try(raised) THEN "stop_raised"
                  ELSE IF stop_from = "start" THEN "start_returned"
                  ELSE "exited"
    /\ UNCHANGED <<is_running, server_socket, clients, waveform_buffer,
                   stop_from, stop_calls, a_pc, handlers, b_pc, payload,
                   send_i, disconnected_clients, server_env, server_obs>>
    /\ UNCHANGED <<alarm_vars, focus, program_vars>>

\* main(), main.py lines 78-86: server.start() has returned, and the
\* finally of main() calls server.stop() once more.  This second call is
\* taken in one step: is_running is False already, and each of its effects
\* (closing the clients registered by now, the listeners created by now and
\* the devices) commutes with the steps of the other threads.
main_finally ==
    /\ m_pc = "start_returned"
    /\ is_running' = FALSE
    /\ closed' = closed_by_stop
    /\ server_socket' = sockets_after_stop
    /\ camera' = handle_after_stop(camera)
    /\ radar_client' = handle_after_stop(radar_client)
    /\ stop_from' = "main"
    /\ stop_calls' = stop_calls + 1
    /\ \E raised \in BOOLEAN :
          m_pc' = IF leaves_try(raised) THEN "stop_raised" ELSE "exited"
    /\ UNCHANGED <<clients, waveform_buffer, a_pc, handlers, b_pc, payload,
                   send_i, disconnected_clients, accepted, recv, produced,
                   sweep, server_obs>>
    /\ UNCHANGED <<alarm_vars, focus, program_vars>>

(*------------------------------ the server ------------------------------*)

(***************************************************************************)
(* main() of breathing_monitor/main.py: the --resolution argument          *)
(***************************************************************************)

\* The --resolution strings tried have at most MaxArgLen characters.
MaxArgLen == 3

\* The characters of the strings tried: two digits, the separator, and one
\* character that is neither (as in "720p").
Digits == {"1", "7"}
Chars == Digits \cup {"x", "p"}

Strings(n) == UNION {[1..k -> Chars] : k \in 0..n}

\* str.split('x'), line 56: the pieces between the separators ("" gives
\* one empty piece, "1x" gives "1" and an empty piece).
RECURSIVE split_x(_)
split_x(s) ==
    IF s = <<>> THEN << <<>> >>
    ELSE LET rest == split_x(Tail(s)) IN
         IF Head(s) = "x" THEN << <<>> >> \o rest
         ELSE << <<Head(s)>> \o Head(rest) >> \o Tail(rest)

DigitValue(c) == IF c = "1" THEN 1 ELSE 7

\* int(piece), line 56: the decimal value; ValueError for a piece that is
\* empty or holds a character that is not a digit.
int_raises(piece) == piece = <<>> \/ \E i \in 1..Len(piece) : piece[i] \notin Digits

RECURSIVE int_of(_)
int_of(piece) ==
    IF piece = <<>> THEN 0
    ELSE 10 * int_of(SubSeq(piece, 1, Len(piece) - 1))
            + DigitValue(piece[Len(piece)])

\* `width, height = map(int, ...)`, line 56: ValueError when there are not
\* exactly two pieces or when int() raises on one of them.
unpack_raises(arg) ==
    LET pieces == split_x(arg) IN
    \/ Len(pieces) # 2
    \/ \E i \in 1..Len(pieces) : int_raises(pieces[i])

default_resolution == <<1280, 720>>

\* Lines 55-60: the resolution is parsed; on ValueError the error is
\* logged and the default is used.
main_parse_resolution ==
    /\ main_pc = "parse"
    /\ resolution' = IF unpack_raises(args_resolution)
                     THEN default_resolution
                     ELSE <<int_of(split_x(args_resolution)[1]),
                            int_of(split_x(args_resolution)[2])>>
    /\ main_pc' = "construct"
    /\ UNCHANGED <<args_resolution, exit_status>>
    /\ UNCHANGED beside_entry

\* Lines 67-76: CombinedServer(..., resolution=resolution, ...).
main_construct_server ==
    /\ main_pc = "construct"
    /\ main_pc' = "serve"
    /\ UNCHANGED <<args_resolution, resolution, exit_status>>
    /\ UNCHANGED beside_entry

\* Lines 78-86: server.start() runs until it returns or raises; the
\* finally stops the server.
main_serve ==
    /\ main_pc = "serve"
    /\ main_pc' = "return"
    /\ UNCHANGED <<args_resolution, resolution, exit_status>>
    /\ UNCHANGED beside_entry

\* main() returns and the interpreter exits with status 0.
main_return ==
    /\ main_pc = "return"
    /\ main_pc' = "exit"
    /\ exit_status' = "0"
    /\ UNCHANGED <<args_resolution, resolution>>
    /\ UNCHANGED beside_entry

EntryInit ==
    /\ args_resolution \in Strings(MaxArgLen)
    /\ resolution = <<>>
    /\ main_pc = "parse"
    /\ exit_status = "none"

EntryNext ==
    \/ main_parse_resolution
    \/ main_construct_server
    \/ main_serve
    \/ main_return

\* main() is not run.
NoEntry ==
    /\ args_resolution = <<>>
    /\ resolution = <<>>
    /\ main_pc = "none"
    /\ exit_status = "none"

(***************************************************************************)
(* The classification of a cleaned window (process_breathing_data lines    *)
(* 139-141, get_breathing_data lines 131-132).  Samples are integers in    *)
(* hundredths: 1 stands for 0.01.                                          *)
(***************************************************************************)

\* The windows tried have at most MaxSamples samples.
MaxSamples == 3

\* The sample values tried, on both sides of and on the two thresholds.
Samples == {-7, -5, -1, 0, 1, 2, 5, 7}

Waveforms == UNION {[1..k -> Samples] : k \in 1..MaxSamples}

\* The thresholds of lines 140 and 141: 0.05 and 0.02.
motion_threshold == 5
no_movement_threshold == 2

RECURSIVE Sum(_)
Sum(w) == IF w = <<>> THEN 0 ELSE Head(w) + Sum(Tail(w))

Abs(x) == IF x < 0 THEN -x ELSE x

\* Variant: >= in the place of > at line 140.
exceeds_or_equals(a, b) == a >= b

\* The comparison `>` of line 140.
exceeds(a, b) == a > b

\* np.std(w) > t, line 140: the root of the mean of the squared
\* deviations from the mean exceeds t (t >= 0).  With n samples of sum S
\* the deviation of sample x is (n*x - S)/n, so the test is
\* Sum((n*x - S)^2) > t^2 * n^3.
std_above(w, t) ==
    LET n == Len(w)
        S == Sum(w)
        dev2 == [i \in 1..n |-> (n * w[i] - S) * (n * w[i] - S)]
    IN  exceeds(Sum(dev2), t * t * n * n * n)

\* Variant: the smallest magnitude in the place of the largest.
trough_below(w, t) == \E i \in 1..Len(w) : Abs(w[i]) < t

\* np.max(np.abs(w)) < t, line 141.
peak_below(w, t) ==
    LET peak == CHOOSE a \in {Abs(w[i]) : i \in 1..Len(w)} :
                    \A i \in 1..Len(w) : Abs(w[i]) <= a
    IN  peak < t

\* Line 140.
motion_state_of(w) ==
    IF std_above(w, motion_threshold)
    THEN "Child in motion" ELSE "Stable breathing waveform"

\* Line 141.
alert_of(w) ==
    IF peak_below(w, no_movement_threshold)
    THEN "Child not moving" ELSE "Normal"

\* The filter cascade of a cycle has produced the cleaned window w,
\* lines 126-137.
cascade_yields ==
    /\ cleaned_waveform = <<>>
    /\ \E w \in Waveforms : cleaned_waveform' = w
    /\ UNCHANGED <<motion_state, alert>>
    /\ UNCHANGED beside_cycle

\* The classification of the cycle, lines 139-141.
classify_window ==
    /\ cleaned_waveform # <<>>
    /\ motion_state = "none"
    /\ motion_state' = motion_state_of(cleaned_waveform)
    /\ alert' = alert_of(cleaned_waveform)
    /\ UNCHANGED cleaned_waveform
    /\ UNCHANGED beside_cycle

\* The cycle ends (lines 143-159) and its locals are dead: the next cycle
\* assigns them anew.
cycle_ends ==
    /\ motion_state # "none"
    /\ cleaned_waveform' = <<>>
    /\ motion_state' = "none"
    /\ alert' = "none"
    /\ UNCHANGED beside_cycle

ClassifyInit ==
    /\ cleaned_waveform = <<>>
    /\ motion_state = "none"
    /\ alert = "none"

ClassifyNext ==
    \/ cascade_yields
    \/ classify_window
    \/ cycle_ends

\* No cycle has classified a window.
NoCycle == ClassifyInit

(***************************************************************************)
(* RespiratoryMonitoring (breathing_monitor/respiratory_monitoring.py):    *)
(* the thread running get_breathing_data for an accepted connection.       *)
(***************************************************************************)

\* start_server, lines 42-45: a connection is accepted, kept in self.conn,
\* and a thread running get_breathing_data is started.
monitor_accept ==
    /\ mon_pc = "wait"
    /\ conn' = "open"
    /\ mon_pc' = "head"
    /\ UNCHANGED <<client, notifying, cycle_vars>>
    /\ UNCHANGED beside_monitor

\* Lines 116-117: `if not self.client: self._setup_client()`; the setup
\* (lines 47-55) raises when the sensor host cannot be reached.
monitor_setup_client ==
    /\ mon_pc = "head"
    /\ IF client = "None"
       THEN \E ok \in BOOLEAN :
               /\ client' = IF ok THEN "session" ELSE "None"
               /\ mon_pc' = IF ok THEN "read" ELSE "except"
       ELSE /\ client' = client
            /\ mon_pc' = "read"
    /\ UNCHANGED <<conn, notifying, cycle_vars>>
    /\ UNCHANGED beside_monitor

\* Lines 119-129: get_next() and the filter cascade yield the cleaned
\* window, or one of them raises.
monitor_get_next ==
    /\ mon_pc = "read"
    /\ \/ /\ \E w \in Waveforms : cleaned_waveform' = w
          /\ mon_pc' = "classify"
       \/ /\ cleaned_waveform' = cleaned_waveform
          /\ mon_pc' = "except"
    /\ UNCHANGED <<motion_state, alert, client, conn, notifying>>
    /\ UNCHANGED beside_monitor

\* Lines 131-132.
monitor_classify ==
    /\ mon_pc = "classify"
    /\ motion_state' = motion_state_of(cleaned_waveform)
    /\ alert' = alert_of(cleaned_waveform)
    /\ mon_pc' = "send"
    /\ UNCHANGED <<cleaned_waveform, client, conn, notifying>>
    /\ UNCHANGED beside_monitor

\* Line 136: `self.client_socket.send(struct.pack(...))`.  No attribute
\* client_socket is ever set on the object (the connection is self.conn)
\* and the module does not import struct: the statement raises
\* AttributeError in every cycle, and lines 137-147 (the other sends, the
\* log lines and the call of _send_push_notification) are not reached.
monitor_send_status ==
    /\ mon_pc = "send"
    /\ mon_pc' = "except"
    /\ UNCHANGED <<client, conn, notifying, cycle_vars>>
    /\ UNCHANGED beside_monitor

\* Lines 149-151 and cleanup(), lines 155-168: the session is stopped and
\* cleared, the connection closed and cleared.  The locals of the cycle
\* are dead from here on.
monitor_cleanup ==
    /\ mon_pc = "except"
    /\ client' = "None"
    /\ conn' = "None"
    /\ mon_pc' = "sleep"
    /\ cleaned_waveform' = <<>>
    /\ motion_state' = "none"
    /\ alert' = "none"
    /\ UNCHANGED notifying
    /\ UNCHANGED beside_monitor

\* Lines 152-153: time.sleep(5), then the next iteration of `while True`.
monitor_sleep ==
    /\ mon_pc = "sleep"
    /\ mon_pc' = "head"
    /\ UNCHANGED <<client, conn, notifying, cycle_vars>>
    /\ UNCHANGED beside_monitor

MonitorInit ==
    /\ client = "None"
    /\ conn = "None"
    /\ mon_pc = "wait"
    /\ notifying = FALSE

\* The steps of the get_breathing_data thread.
MonitorLoop ==
    \/ monitor_setup_client
    \/ monitor_get_next
    \/ monitor_classify
    \/ monitor_send_status
    \/ monitor_cleanup
    \/ monitor_sleep

MonitorNext ==
    \/ monitor_accept
    \/ MonitorLoop

\* No RespiratoryMonitoring object exists.
NoMonitor ==
    /\ client = "None"
    /\ conn = "None"
    /\ mon_pc = "none"
    /\ notifying = FALSE

(***************************************************************************)
(* main() of breathing_app.py: the loop that sends one status line per     *)
(* result of the breathing reference application.                          *)
(***************************************************************************)

\* breathing_rate_history holds at most MaxHistory values.
MaxHistory == 2

\* The members of AppState the loop names, and "OTHER" for any member it
\* does not name (the `else` of line 157).
AppStates == {"NO_PRESENCE_DETECTED", "DETERMINE_DISTANCE_ESTIMATE",
              "ESTIMATE_BREATHING_RATE", "INTRA_PRESENCE_DETECTED", "OTHER"}

\* Breathing rates are in tenths of a breath per minute (142 is 14.2);
\* NaN stands for float('nan').
NaN == -1
Rates == {60, 142}

Histories == UNION {[1..k -> Rates \cup {NaN}] : k \in 0..MaxHistory}

\* ref_app_result.breathing_result: None, or a result with its
\* breathing_rate (None or a rate) and its breathing_rate_history.
NoBreathingResult == [exists |-> FALSE, has_rate |-> FALSE, history |-> <<>>]
BreathingResults ==
    {NoBreathingResult}
        \cup [exists : {TRUE}, has_rate : BOOLEAN, history : Histories]

RefAppResults == [app_state : AppStates, breathing_result : BreathingResults]

NoResult == [app_state |-> "none", breathing_result |-> NoBreathingResult]

\* A status message: its text and, for a breathing rate, the formatted
\* value and the unit that follow the text.
Message(text) == [text |-> text, value |-> <<>>, unit |-> ""]
NoMessage == Message("none")

\* Variant: the history is not filtered.
unfiltered(history) == history

\* Line 132: [i for i in _bpm_history if not np.isnan(i)].
RECURSIVE filtered_bpm_history(_)
filtered_bpm_history(history) ==
    IF history = <<>> THEN <<>>
    ELSE IF Head(history) = NaN THEN filtered_bpm_history(Tail(history))
    ELSE <<Head(history)>> \o filtered_bpm_history(Tail(history))

\* "{:.1f}".format(v), line 134: the integer part and the one decimal.
format_1f(v) == <<v \div 10, v % 10>>

\* Lines 125-134: displayed_breathing_rate of a result (<<>> for None).
displayed_of(result) ==
    LET r == result.breathing_result
        f == filtered_bpm_history(r.history)
    IN  IF r.exists /\ Len(f) > 0 THEN format_1f(f[Len(f)]) ELSE <<>>

\* Lines 149-158: the presence text of an app state.
presence_text(app_state) ==
    CASE app_state = "NO_PRESENCE_DETECTED" -> "No presence detected"
      [] app_state = "DETERMINE_DISTANCE_ESTIMATE"
            -> "Determining distance with presence"
      [] app_state = "ESTIMATE_BREATHING_RATE" -> "Presence detected"
      [] app_state = "INTRA_PRESENCE_DETECTED" -> "Motion detected"
      [] OTHER -> ""

\* Lines 149-168: status_message of a result and its displayed rate.
status_of(result, displayed) ==
    LET r == result.breathing_result IN
    IF result.app_state = "ESTIMATE_BREATHING_RATE"
    THEN IF r.exists /\ ~r.has_rate
         THEN Message("Initializing breathing detection")
         ELSE IF displayed # <<>>
              THEN [text |-> "Breathing rate: ", value |-> displayed,
                    unit |-> " bpm"]
              ELSE Message(presence_text(result.app_state))
    ELSE Message(presence_text(result.app_state))

\* f"{status_message}\n", line 173.
line_of(message) == [message |-> message, end |-> "\n"]

\* Line 123, `while not interrupt_handler.got_signal`, and line 124:
\* ref_app.get_next() returns the next result.
app_get_next ==
    /\ app_pc = "loop"
    /\ \E result \in RefAppResults : ref_app_result' = result
    /\ displayed_breathing_rate' = <<>>
    /\ status_message' = NoMessage
    /\ sent' = <<>>
    /\ app_pc' = "compose"
    /\ UNCHANGED beside_app

\* Line 124 raises (the sensor or the client fails): the `except` of
\* lines 177-180, then the finally.
app_get_next_error ==
    /\ app_pc = "loop"
    /\ ref_app_result' = NoResult
    /\ displayed_breathing_rate' = <<>>
    /\ status_message' = NoMessage
    /\ sent' = <<>>
    /\ app_pc' = "finally"
    /\ UNCHANGED beside_app

\* The interrupt handler has got a signal: the loop test of line 123 fails.
app_got_signal ==
    /\ app_pc = "loop"
    /\ app_pc' = "finally"
    /\ UNCHANGED <<ref_app_result, displayed_breathing_rate, status_message,
                   sent>>
    /\ UNCHANGED beside_app

\* Lines 125-168: the displayed rate and the status message.
app_compose ==
    /\ app_pc = "compose"
    /\ displayed_breathing_rate' = displayed_of(ref_app_result)
    /\ status_message' = status_of(ref_app_result,
                                    displayed_of(ref_app_result))
    /\ app_pc' = "send"
    /\ UNCHANGED <<ref_app_result, sent>>
    /\ UNCHANGED beside_app

\* Lines 173-174: conn.sendall of the line; the iteration is complete.
\* When sendall raises (the peer is gone) the loop is left.
app_send ==
    /\ app_pc = "send"
    /\ \E ok \in BOOLEAN :
          /\ sent' = IF ok THEN Append(sent, line_of(status_message))
                           ELSE sent
          /\ app_pc' = IF ok THEN "loop" ELSE "finally"
    /\ UNCHANGED <<ref_app_result, displayed_breathing_rate, status_message>>
    /\ UNCHANGED beside_app

\* Lines 181-185: the listening socket is closed, the reference
\* application stopped, the connection closed.
app_finally ==
    /\ app_pc = "finally"
    /\ app_pc' = "done"
    /\ UNCHANGED <<ref_app_result, displayed_breathing_rate, status_message,
                   sent>>
    /\ UNCHANGED beside_app

AppInit ==
    /\ ref_app_result = NoResult
    /\ displayed_breathing_rate = <<>>
    /\ status_message = NoMessage
    /\ sent = <<>>
    /\ app_pc = "loop"

AppNext ==
    \/ app_get_next
    \/ app_get_next_error
    \/ app_got_signal
    \/ app_compose
    \/ app_send
    \/ app_finally

\* breathing_app.py is not run.
NoApp ==
    /\ ref_app_result = NoResult
    /\ displayed_breathing_rate = <<>>
    /\ status_message = NoMessage
    /\ sent = <<>>
    /\ app_pc = "none"

(***************************************************************************)
(* VideoStreaming (sandbox/video_streaming.py): one client at a time.      *)
(***************************************************************************)

\* Connections that arrive over a run, and frames sent on one connection.
MaxStreamConn == 2
MaxStreamFrames == 3

\* The sizes of the frames the camera delivers.
FrameSizes == {1, 2, 3}

\* cleanup(), lines 98-119: whatever handle is set is closed or stopped.
closed_if_set(handle, closed_value) ==
    IF handle = "None" THEN "None" ELSE closed_value

\* Lines 21-28, 32-34: _setup_camera(); an exception, raised before or
\* after self.camera is assigned, goes to the outer except and finally.
vs_setup_camera ==
    /\ vs_pc = "setup"
    /\ \/ vs_camera' = "started" /\ vs_pc' = "socket"
       \/ vs_camera' \in {"None", "created"} /\ vs_pc' = "final"
    /\ UNCHANGED <<vs_server_socket, vs_connection, vs_accepted, streamed>>
    /\ UNCHANGED beside_streaming

\* Lines 36-41: socket, bind, listen.
vs_listen ==
    /\ vs_pc = "socket"
    /\ \E ok \in BOOLEAN :
          /\ vs_server_socket' = IF ok THEN "listening" ELSE "unbound"
          /\ vs_pc' = IF ok THEN "accept" ELSE "final"
    /\ UNCHANGED <<vs_connection, vs_camera, vs_accepted, streamed>>
    /\ UNCHANGED beside_streaming

\* Lines 43-47: accept() returns a connection.
vs_accept ==
    /\ vs_pc = "accept"
    /\ vs_server_socket = "listening"
    /\ vs_accepted < MaxStreamConn
    /\ vs_connection' = "open"
    /\ vs_accepted' = vs_accepted + 1
    /\ streamed' = <<>>
    /\ vs_pc' = "capture"
    /\ UNCHANGED <<vs_server_socket, vs_camera>>
    /\ UNCHANGED beside_streaming

\* Lines 46, 49-51: accept() raises (always so on a closed socket).
vs_accept_error ==
    /\ vs_pc = "accept"
    /\ vs_pc' = "inner_finally"
    /\ UNCHANGED <<vs_server_socket, vs_connection, vs_camera, vs_accepted,
                   streamed>>
    /\ UNCHANGED beside_streaming

\* Lines 70-77: a frame is captured and its size taken; capture_file
\* raises when the camera fails or has been stopped.
vs_capture ==
    /\ vs_pc = "capture"
    /\ \/ /\ vs_camera = "started"
          /\ Len(streamed) < MaxStreamFrames
          /\ \E size \in FrameSizes : streamed' = Append(streamed, size)
          /\ vs_pc' = "send"
       \/ /\ streamed' = streamed
          /\ vs_pc' = "stream_finally"
    /\ UNCHANGED <<vs_server_socket, vs_connection, vs_camera, vs_accepted>>
    /\ UNCHANGED beside_streaming

\* Lines 80-90: sendall of the size and the frame; on any exception the
\* loop is left.
vs_send ==
    /\ vs_pc = "send"
    /\ \E ok \in BOOLEAN : vs_pc' = IF ok THEN "capture" ELSE "stream_finally"
    /\ UNCHANGED <<vs_server_socket, vs_connection, vs_camera, vs_accepted,
                   streamed>>
    /\ UNCHANGED beside_streaming

\* Lines 94-96: the finally of _stream_video calls cleanup(), which closes
\* the connection, stops the camera and closes the listening socket.
vs_stream_finally ==
    /\ vs_pc = "stream_finally"
    /\ vs_connection' = closed_if_set(vs_connection, "closed")
    /\ vs_camera' = closed_if_set(vs_camera, "stopped")
    /\ vs_server_socket' = closed_if_set(vs_server_socket, "closed")
    /\ vs_pc' = "inner_finally"
    /\ UNCHANGED <<vs_accepted, streamed>>
    /\ UNCHANGED beside_streaming

\* Lines 52-58: the finally of the accept loop closes the connection, and
\* `while True` goes on.
vs_inner_finally ==
    /\ vs_pc = "inner_finally"
    /\ vs_connection' = closed_if_set(vs_connection, "closed")
    /\ vs_pc' = "accept"
    /\ UNCHANGED <<vs_server_socket, vs_camera, vs_accepted, streamed>>
    /\ UNCHANGED beside_streaming

\* Lines 59-63: the outer except and finally: cleanup().
vs_final ==
    /\ vs_pc = "final"
    /\ vs_connection' = closed_if_set(vs_connection, "closed")
    /\ vs_camera' = closed_if_set(vs_camera, "stopped")
    /\ vs_server_socket' = closed_if_set(vs_server_socket, "closed")
    /\ vs_pc' = "done"
    /\ UNCHANGED <<vs_accepted, streamed>>
    /\ UNCHANGED beside_streaming

StreamingInit ==
    /\ vs_server_socket = "None"
    /\ vs_connection = "None"
    /\ vs_camera = "None"
    /\ vs_pc = "setup"
    /\ vs_accepted = 0
    /\ streamed = <<>>

StreamingNext ==
    \/ vs_setup_camera
    \/ vs_listen
    \/ vs_accept
    \/ vs_accept_error
    \/ vs_capture
    \/ vs_send
    \/ vs_stream_finally
    \/ vs_inner_finally
    \/ vs_final

\* No VideoStreaming object exists.
NoStreaming ==
    /\ vs_server_socket = "None"
    /\ vs_connection = "None"
    /\ vs_camera = "None"
    /\ vs_pc = "none"
    /\ vs_accepted = 0
    /\ streamed = <<>>

(***************************************************************************)
(* sandbox/breathing_app.py: one status line per cycle to one client.      *)
(***************************************************************************)

\* The longest rate history of a result, and the failed accept() calls
\* that are counted.
MaxSessionHistory == 1
MaxRetries == 2

\* The results ref_app.get_next() delivers in a session.
SessionResults ==
    {r \in RefAppResults :
        Len(r.breathing_result.history) <= MaxSessionHistory}

\* status_message before its first assignment.
Unbound == Message("unbound")

\* Lines 119-134: whether the chain assigns status_message.  In the
\* ESTIMATE_BREATHING_RATE branch neither `if` nor `elif` may apply.
assigns_status(result, displayed) ==
    LET r == result.breathing_result IN
    result.app_state = "ESTIMATE_BREATHING_RATE"
        => ((r.exists /\ ~r.has_rate) \/ displayed # <<>>)

\* Line 52: create_server_socket() retries until it has a listening socket;
\* lines 53-54 register the exit handler.
sb_create_server_socket ==
    /\ sb_pc = "create"
    /\ sb_server' = "listening"
    /\ sb_pc' = "wait"
    /\ UNCHANGED <<sb_conn, sb_result, sb_status, sb_sent, sb_retries,
                   probe, probe_line>>
    /\ UNCHANGED beside_session

\* Lines 45-47, 57: accept() returns a connection.
sb_accept ==
    /\ sb_pc = "wait"
    /\ sb_server = "listening"
    /\ sb_conn' = "open"
    /\ sb_retries' = 0
    /\ sb_pc' = "setup"
    /\ UNCHANGED <<sb_server, sb_result, sb_status, sb_sent, probe,
                   probe_line>>
    /\ UNCHANGED beside_session

\* Lines 45, 48-49: accept() raises (always so on a closed socket) and is
\* called again at once.
sb_accept_error ==
    /\ sb_pc = "wait"
    /\ sb_retries < MaxRetries
    /\ sb_retries' = sb_retries + 1
    /\ UNCHANGED <<sb_server, sb_conn, sb_pc, sb_result, sb_status, sb_sent,
                   probe, probe_line>>
    /\ UNCHANGED beside_session

\* Lines 59-97: the sensor session is set up; an exception goes to the
\* outer except of lines 150-152, which closes the connection.
sb_setup_session ==
    /\ sb_pc = "setup"
    /\ \/ sb_pc' = "loop" /\ sb_conn' = sb_conn
       \/ sb_pc' = "wait" /\ sb_conn' = "closed"
    /\ UNCHANGED <<sb_server, sb_result, sb_status, sb_sent, sb_retries,
                   probe, probe_line>>
    /\ UNCHANGED beside_session

\* Lines 100-102: `while not interrupt_handler.got_signal` and
\* ref_app.get_next().
sb_get_next ==
    /\ sb_pc = "loop"
    /\ \E result \in SessionResults : sb_result' = result
    /\ sb_pc' = "compose"
    /\ UNCHANGED <<sb_server, sb_conn, sb_status, sb_sent, sb_retries,
                   probe, probe_line>>
    /\ UNCHANGED beside_session

\* Line 101 raises: the except of lines 143-144.
sb_get_next_error ==
    /\ sb_pc = "loop"
    /\ sb_pc' = "finally"
    /\ UNCHANGED <<sb_server, sb_conn, sb_result, sb_status, sb_sent,
                   sb_retries, probe, probe_line>>
    /\ UNCHANGED beside_session

\* Line 100: got_signal is set (Ctrl-C during the session); the loop ends.
sb_got_signal ==
    /\ sb_pc = "loop"
    /\ sb_pc' = "finally"
    /\ UNCHANGED <<sb_server, sb_conn, sb_result, sb_status, sb_sent,
                   sb_retries, probe, probe_line>>
    /\ UNCHANGED beside_session

\* Lines 102-134: the displayed rate and the if/elif chain.  A branch that
\* assigns nothing leaves status_message as it was; reading it unbound at
\* line 136 raises UnboundLocalError, caught at lines 143-144.
sb_compose ==
    /\ sb_pc = "compose"
    /\ LET displayed == displayed_of(sb_result) IN
          IF assigns_status(sb_result, displayed)
          THEN /\ sb_status' = status_of(sb_result, displayed)
               /\ sb_pc' = "send"
          ELSE /\ sb_status' = sb_status
               /\ sb_pc' = IF sb_status = Unbound THEN "finally" ELSE "send"
    /\ UNCHANGED <<sb_server, sb_conn, sb_result, sb_sent, sb_retries,
                   probe, probe_line>>
    /\ UNCHANGED beside_session

\* Lines 136-139: conn.sendall(f"{status_message}\n"); a failure goes to
\* the except of lines 143-144.
sb_send ==
    /\ sb_pc = "send"
    /\ \/ /\ sb_sent' = <<line_of(sb_status)>>
          /\ probe_line' = IF sb_result = probe /\ probe_line = <<>>
                            THEN <<line_of(sb_status)>>
                            ELSE probe_line
          /\ sb_pc' = "sent"
       \/ /\ sb_sent' = <<>>
          /\ probe_line' = probe_line
          /\ sb_pc' = "finally"
    /\ UNCHANGED <<sb_server, sb_conn, sb_result, sb_status, sb_retries,
                   probe>>
    /\ UNCHANGED beside_session

\* Lines 137-139: the status is printed when it changed, and the cycle is
\* over.
sb_cycle_ends ==
    /\ sb_pc = "sent"
    /\ sb_result' = NoResult
    /\ sb_sent' = <<>>
    /\ sb_pc' = "loop"
    /\ UNCHANGED <<sb_server, sb_conn, sb_status, sb_retries, probe,
                   probe_line>>
    /\ UNCHANGED beside_session

\* Lines 145-148: the finally of the session closes the LISTENING socket,
\* stops the ref app and closes the connection; `while True` of line 56
\* then calls wait_for_connection again.
sb_session_finally ==
    /\ sb_pc = "finally"
    /\ sb_server' = "closed"
    /\ sb_conn' = "closed"
    /\ sb_pc' = "wait"
    /\ UNCHANGED <<sb_result, sb_status, sb_sent, sb_retries, probe,
                   probe_line>>
    /\ UNCHANGED beside_session

\* Lines 21-26: SIGTERM (or SIGINT outside a session): the handler closes
\* the listening socket and sys.exit(0) ends the process; raised inside a
\* session, SystemExit passes through the finally of lines 145-148.
sb_handle_exit ==
    /\ sb_pc \in {"wait", "loop"}
    /\ sb_server' = "closed"
    /\ sb_conn' = IF sb_pc = "loop" THEN "closed" ELSE sb_conn
    /\ sb_pc' = "exited"
    /\ UNCHANGED <<sb_result, sb_status, sb_sent, sb_retries, probe,
                   probe_line>>
    /\ UNCHANGED beside_session

SessionInit ==
    /\ sb_server = "None"
    /\ sb_conn = "None"
    /\ sb_pc = "create"
    /\ sb_result = NoResult
    /\ sb_status = Unbound
    /\ sb_sent = <<>>
    /\ sb_retries = 0
    /\ probe \in SessionResults
    /\ probe_line = <<>>

SessionNext ==
    \/ sb_create_server_socket
    \/ sb_accept
    \/ sb_accept_error
    \/ sb_setup_session
    \/ sb_get_next
    \/ sb_get_next_error
    \/ sb_got_signal
    \/ sb_compose
    \/ sb_send
    \/ sb_cycle_ends
    \/ sb_session_finally
    \/ sb_handle_exit

\* sandbox/breathing_app.py is not run.
NoSession ==
    /\ sb_server = "None"
    /\ sb_conn = "None"
    /\ sb_pc = "none"
    /\ sb_result = NoResult
    /\ sb_status = Unbound
    /\ sb_sent = <<>>
    /\ sb_retries = 0
    /\ probe = NoResult
    /\ probe_line = <<>>

\* None of the smaller programs is run.
NoPrograms ==
    NoEntry /\ NoCycle /\ NoMonitor /\ NoApp /\ NoStreaming /\ NoSession

\* No BreathingAlarm object exists in CombinedServer.
NoAlarm ==
    /\ alarm_armed = FALSE
    /\ alarm_active = FALSE
    /\ validation_count = 0
    /\ thresholds = [pending |-> 0, active |-> 0, validation |-> 1]
    /\ pending_state = "Initializing"
    /\ active_state = "Initializing"
    /\ no_movement = FALSE
    /\ op = [name |-> "none", disarm |-> FALSE, reps |-> 1]
    /\ pre = AlarmState
    /\ ever_armed = FALSE
    /\ run = FreshRun(FALSE, FALSE, 0)

\* The threads of channel ch: its acceptor with the handler threads, and
\* its broadcaster.
Scheduled(ch) == focus \in {ch, "both"}

\* The main thread together with the acceptor and the broadcaster of the
\* channel in focus; the two threads of the other channel, which share no
\* variable with them but is_running, are not scheduled.
ChannelNext ==
    \/ start
    \/ start_camera_error
    \/ interrupt
    \/ main_finally
    \/ stop_close_clients
    \/ stop_close_sockets
    \/ stop_devices
    \/ \E ch \in Channels : Scheduled(ch) /\ bind_listener(ch)
    \/ \E ch \in Channels : Scheduled(ch) /\ accept_check(ch)
    \/ \E ch \in Channels : Scheduled(ch) /\ accept_connection(ch)
    \/ \E ch \in Channels : Scheduled(ch) /\ accept_error(ch)
    \/ \E ch \in Channels : Scheduled(ch) /\ handle_client(ch)
    \/ \E ch \in Channels : Scheduled(ch) /\ send_to_client(ch)
    \/ \E ch \in Channels : Scheduled(ch) /\ send_stalls(ch)
    \/ \E ch \in Channels : Scheduled(ch) /\ send_resumes(ch)
    \/ \E ch \in Channels : Scheduled(ch) /\ remove_disconnected(ch)
    \/ Scheduled("data") /\ setup_radar_client
    \/ Scheduled("data") /\ telemetry_loop_test
    \/ Scheduled("data") /\ get_next
    \/ Scheduled("data") /\ get_next_error
    \/ Scheduled("data") /\ process_sweep
    \/ Scheduled("data") /\ send_breathing_data_to_clients
    \/ Scheduled("data") /\ telemetry_finally
    \/ Scheduled("video") /\ video_loop_test
    \/ Scheduled("video") /\ video_clients_test
    \/ Scheduled("video") /\ capture_frame
    \/ Scheduled("video") /\ capture_error

\* CombinedServer seen from either channel: Init picks the channel.
ChannelInit == ServerInit /\ focus \in Channels /\ NoAlarm /\ NoPrograms

SpecChannel == ChannelInit /\ [][ChannelNext]_vars

\* CombinedServer with the threads of both channels running side by side.
BothInit == ServerInit /\ focus = "both" /\ NoAlarm /\ NoPrograms

SpecBoth == BothInit /\ [][ChannelNext]_vars

\* The steps the threads take by themselves once they can: everything but
\* what a peer, the user or a device decides (a connection arriving, a
\* blocked write going on, the interrupt, an error of the sensor, the
\* camera or accept()).
ThreadStep ==
    \/ start
    \/ stop_close_clients
    \/ stop_close_sockets
    \/ stop_devices
    \/ \E ch \in Channels : Scheduled(ch) /\ bind_listener(ch)
    \/ \E ch \in Channels : Scheduled(ch) /\ accept_check(ch)
    \/ \E ch \in Channels : Scheduled(ch) /\ handle_client(ch)
    \/ \E ch \in Channels : Scheduled(ch) /\ send_to_client(ch)
    \/ \E ch \in Channels : Scheduled(ch) /\ remove_disconnected(ch)
    \/ Scheduled("data") /\ setup_radar_client
    \/ Scheduled("data") /\ telemetry_loop_test
    \/ Scheduled("data") /\ process_sweep
    \/ Scheduled("data") /\ send_breathing_data_to_clients
    \/ Scheduled("data") /\ telemetry_finally
    \/ Scheduled("video") /\ video_loop_test
    \/ Scheduled("video") /\ video_clients_test

\* The server with every thread scheduled again and again (the threads of
\* CPython take turns).
SpecChannelLive == SpecChannel /\ WF_vars(ThreadStep)

\* The alarm driven by any sequence of calls (no server is started).
AlarmOnlyInit == AlarmInit /\ ServerInit /\ focus = "data" /\ NoPrograms

SpecAlarm == AlarmOnlyInit /\ [][AlarmNext]_vars

\* No server is started and the alarm is not used.
NoServer == ServerInit /\ focus = "data" /\ NoAlarm

\* main() of breathing_monitor/main.py run on any --resolution string.
MainInit ==
    EntryInit /\ NoServer /\ NoCycle /\ NoMonitor /\ NoApp /\ NoStreaming
        /\ NoSession

SpecMain == MainInit /\ [][EntryNext]_vars

\* The classification applied to one window after another.
ClassifyOnlyInit ==
    ClassifyInit /\ NoServer /\ NoEntry /\ NoMonitor /\ NoApp /\ NoStreaming
        /\ NoSession

SpecClassify == ClassifyOnlyInit /\ [][ClassifyNext]_vars

\* RespiratoryMonitoring serving a connection; its thread keeps running.
MonitorOnlyInit ==
    MonitorInit /\ ClassifyInit /\ NoServer /\ NoEntry /\ NoApp
        /\ NoStreaming /\ NoSession

SpecMonitor == MonitorOnlyInit /\ [][MonitorNext]_vars

SpecMonitorLive == SpecMonitor /\ WF_vars(MonitorLoop)

\* main() of breathing_app.py from the start of its loop.
AppOnlyInit ==
    AppInit /\ NoServer /\ NoEntry /\ NoCycle /\ NoMonitor /\ NoStreaming
        /\ NoSession

SpecApp == AppOnlyInit /\ [][AppNext]_vars

\* VideoStreaming().start_streaming().
StreamingOnlyInit ==
    StreamingInit /\ NoServer /\ NoEntry /\ NoCycle /\ NoMonitor /\ NoApp
        /\ NoSession

SpecStreaming == StreamingOnlyInit /\ [][StreamingNext]_vars

\* python sandbox/breathing_app.py.
SessionOnlyInit ==
    SessionInit /\ NoServer /\ NoEntry /\ NoCycle /\ NoMonitor /\ NoApp
        /\ NoStreaming

SpecSession == SessionOnlyInit /\ [][SessionNext]_vars

(***************************************************************************)
(* Properties of BreathingAlarm (checked under SpecAlarm)                  *)
(***************************************************************************)

\* The run observed started at an armed alarm with validation_count = 0.
RunFromArmedZero == run.armed0 /\ run.c0 = 0

\* C1 (as stated): validationLimit consecutive "NoMovement" updates of an
\* armed alarm that starts at validation_count = 0 make alarm_active become
\* true exactly once, and alarm_armed becomes false at that same update.
C1_ActivatesOnce_AsStated ==
    (RunFromArmedZero /\ run.n = thresholds.validation)
        => (run.rises = 1 /\ run.riseDisarm)

\* C1 (amended): the same, for an alarm that is not yet active and whose cap
\* in effect at every one of these updates is at least validationLimit: then
\* alarm_active becomes true exactly once, at the last of the validationLimit
\* updates, and alarm_armed becomes false at that same update.
C1_ActivatesOnce ==
    (RunFromArmedZero /\ ~run.active0 /\ run.capOK
        /\ run.n = thresholds.validation)
        => (/\ run.rises = 1
            /\ run.riseAt = thresholds.validation
            /\ run.riseDisarm
            /\ alarm_active /\ ~alarm_armed)

C1_Witness ==
    /\ RunFromArmedZero /\ ~run.active0 /\ run.capOK
    /\ thresholds.validation >= 2
    /\ run.n = thresholds.validation
    /\ run.rises = 1 /\ run.riseDisarm

FlagsFollowCount(count) ==
    IF count >= thresholds.validation
    THEN alarm_active /\ ~alarm_armed
    ELSE alarm_active = pre.alarm_active /\ alarm_armed = pre.alarm_armed

\* The cap of the update just made, from the labels it saw.
PreCap ==
    IF pre.active_state # "NoMovement" THEN thresholds.pending
    ELSE thresholds.pending + thresholds.active

\* C3 (as stated): an update with pending label "NoMovement" increases
\* validation_count by 1 unless it is exactly at the cap, any other update
\* decreases it by 1 unless it is 0; then validation_count >= validationLimit
\* sets alarm_active and clears alarm_armed.
C3_UpdateRule_AsStated ==
    op.name = "update_alarm_state"
        => (/\ validation_count =
                IF pre.pending_state = "NoMovement"
                THEN IF pre.validation_count = PreCap
                     THEN pre.validation_count
                     ELSE pre.validation_count + 1
                ELSE IF pre.validation_count = 0
                     THEN 0
                     ELSE pre.validation_count - 1
            /\ FlagsFollowCount(validation_count))

\* C3 (amended): the same rule, where the counter increases by 1 unless it
\* is already at or above the cap.
C3_UpdateRule ==
    op.name = "update_alarm_state"
        => (/\ validation_count =
                IF pre.pending_state = "NoMovement"
                THEN IF pre.validation_count >= PreCap
                     THEN pre.validation_count
                     ELSE pre.validation_count + 1
                ELSE IF pre.validation_count = 0
                     THEN 0
                     ELSE pre.validation_count - 1
            /\ FlagsFollowCount(validation_count))

\* An update that found the counter above the cap and left it there.
C3_Witness ==
    /\ op.name = "update_alarm_state"
    /\ pre.pending_state = "NoMovement"
    /\ pre.validation_count > PreCap
    /\ validation_count = pre.validation_count

\* C4: an alarm on which arm_alarm was never called never becomes active
\* and keeps validation_count = 0.
C4_UnarmedIsInert ==
    ~ever_armed => (~alarm_active /\ validation_count = 0)

\* C5: once alarm_active is true, every call other than reset_alarm leaves
\* it true.
C5_Latched ==
    (pre.alarm_active /\ op.name # "reset_alarm") => alarm_active

\* An update of an active alarm whose counter is below validationLimit.
C5_Witness ==
    /\ op.name = "update_alarm_state"
    /\ pre.alarm_active /\ alarm_active
    /\ validation_count < thresholds.validation

\* C6: after reset_alarm(disarm=True) the state is validation_count = 0,
\* alarm_active = false, alarm_armed = false; a second consecutive call
\* finds that state and leaves every field as it was.
C6_ResetIdempotent ==
    (op.name = "reset_alarm" /\ op.disarm)
        => (/\ validation_count = 0 /\ ~alarm_active /\ ~alarm_armed
            /\ op.reps = 2 => AlarmState = pre)

\* A first reset_alarm(True) of an inactive alarm with a counter above 0 has
\* been followed by a second one.
C6_Witness ==
    /\ op.name = "reset_alarm" /\ op.disarm /\ op.reps = 2
    /\ validation_count = 0 /\ ~alarm_active /\ ~alarm_armed

\* C7: arm_alarm sets alarm_armed and changes no other field; on an armed
\* alarm it changes nothing.
C7_ArmFrame ==
    op.name = "arm_alarm"
        => (/\ alarm_armed
            /\ [AlarmState EXCEPT !.alarm_armed = pre.alarm_armed] = pre
            /\ pre.alarm_armed => AlarmState = pre)

\* arm_alarm on a disarmed alarm whose counter is above 0.
C7_Witness ==
    /\ op.name = "arm_alarm"
    /\ ~pre.alarm_armed /\ alarm_armed
    /\ pre.validation_count > 0
    /\ validation_count = pre.validation_count

(***************************************************************************)
(* Properties of CombinedServer (checked under SpecChannel)                *)
(***************************************************************************)

\* C8: every telemetry cycle that gets to its broadcast has run, in this
\* order and once each: conditioning, classification, the alarm update, the
\* history append, the broadcast.
C8_CycleOrder ==
    "broadcast" \in Range(cycle_steps)
        => cycle_steps = <<"read", "condition", "classify", "alarm_update",
                           "append", "broadcast">>

WholeFrame(data) == written(data, "ok")

\* C10: when a broadcast on either channel is over, the clients removed from
\* the registry are exactly those whose write failed, they are closed, and
\* every client that was registered when the broadcast began and did not
\* fail is still registered and has received the whole frame (prefix and
\* payload of this broadcast); a failing write never makes the broadcaster
\* leave the broadcast.
C10_BroadcastIsolation ==
    \A ch \in Channels :
        /\ bcast[ch].done =>
              /\ bcast[ch].removed = bcast[ch].failed
              /\ bcast[ch].failed \subseteq closed[ch]
              /\ bcast[ch].after \cap bcast[ch].failed = {}
              /\ (bcast[ch].before \ bcast[ch].failed) \subseteq bcast[ch].after
              /\ \A c \in bcast[ch].before \ bcast[ch].failed :
                    /\ recv[ch][c] # <<>>
                    /\ recv[ch][c][Len(recv[ch][c])] = WholeFrame(bcast[ch].data)
        /\ (bcast[ch].started /\ ~bcast[ch].done) =>
              b_pc[ch] \in {"send_loop", "send_stalled", "remove"}

\* A broadcast is over in which the first client of the registry failed and
\* a later one did not.
C10_Witness ==
    \E ch \in Channels :
        /\ bcast[ch].done
        /\ \E c, d \in bcast[ch].before :
              /\ c < d
              /\ c \in bcast[ch].failed
              /\ d \notin bcast[ch].failed
              /\ d \in Range(clients[ch])

\* The unsigned number four bytes stand for, most significant first.
BigEndian(b) == b[1] * 16777216 + b[2] * 65536 + b[3] * 256 + b[4]

\* C11: on both channels every frame written to a client is a 4-byte
\* big-endian prefix whose value is the byte count of the payload, followed
\* by the payload; the stream of every client is a sequence of whole frames
\* of which at most the last one is cut (where a write failed).
C11_Framing ==
    \A ch \in Channels : \A c \in 1..MaxConn :
        \A i \in 1..Len(recv[ch][c]) :
            LET f == recv[ch][c][i]
            IN /\ Len(f.len_of) = 4
               /\ \A j \in 1..4 : f.len_of[j] \in 0..255
               /\ BigEndian(f.len_of) = Len(f.body)
               /\ Len(f.body) > 0
               /\ (i < Len(recv[ch][c]) => f.part = "whole")

\* One client has received two frames or more, the last of them cut, and
\* another one, registered after the broadcast under way began, has received
\* the whole frame of that broadcast.
C11_Witness ==
    \E ch \in Channels : \E c, d \in 1..MaxConn :
        /\ Len(recv[ch][c]) >= 2
        /\ recv[ch][c][Len(recv[ch][c])].part = "cut"
        /\ bcast[ch].started
        /\ d \notin bcast[ch].before
        /\ recv[ch][d] = <<WholeFrame(bcast[ch].data)>>

\* C12: every telemetry client that is registered when the broadcast of a
\* cycle begins and to which no write fails receives the payload of that
\* cycle, which is the snapshot appended in that cycle, exactly once; the
\* payloads a client receives are those of consecutive cycles in cycle
\* order, without a gap, a duplicate or a swap.
C12_EveryPayloadOnce ==
    /\ bcast["data"].started =>
          /\ bcast["data"].data = produced["data"]
          /\ bcast["data"].data = waveform_buffer[Len(waveform_buffer)]
    /\ bcast["data"].done =>
          \A c \in bcast["data"].before \ bcast["data"].failed :
              /\ recv["data"][c] # <<>>
              /\ recv["data"][c][Len(recv["data"][c])]
                    = [len_of |-> pack_I(produced["data"]),
                       body |-> encoded(produced["data"]), part |-> "whole"]
    /\ \A c \in 1..MaxConn :
          \A i \in 1..Len(recv["data"][c]) :
              /\ recv["data"][c][i].body
                    = encoded(Len(recv["data"][c][i].body))
              /\ i > 1 => Len(recv["data"][c][i].body)
                            = Len(recv["data"][c][i - 1].body) + 1

\* One client has received the payloads of two cycles and one that was
\* registered a cycle later has received the second of them.
C12_Witness ==
    \E c, d \in 1..MaxConn :
        /\ recv["data"][c] = <<WholeFrame(1), WholeFrame(2)>>
        /\ recv["data"][d] = <<WholeFrame(2)>>

\* C13: a write to a client that does not complete is given up after a
\* bounded time (and the client dropped), so that the broadcast goes on to
\* the other clients: a broadcaster blocked in a write does not stay so.
C13_StalledWriteGivenUp ==
    \A ch \in Channels :
        (b_pc[ch] = "send_stalled") ~> (b_pc[ch] # "send_stalled")

\* The connections of channel ch to which a write has failed.
Failed(ch) ==
    {c \in 1..MaxConn :
        /\ recv[ch][c] # <<>>
        /\ recv[ch][c][Len(recv[ch][c])].part = "cut"}

\* No handler thread of channel ch is running and its broadcaster is not in
\* a broadcast.
Quiet(ch) ==
    /\ handlers[ch] = {}
    /\ b_pc[ch] \notin {"send_loop", "send_stalled", "remove"}

C16_NoClientsNoSend ==
    [][/\ (/\ b_pc["data"] = "send"
           /\ b_pc'["data"] # "send"
           /\ clients["data"] = <<>>)
          => /\ cycle_steps = <<"read", "condition", "classify", "append">>
             /\ waveform_buffer # <<>>
             /\ waveform_buffer[Len(waveform_buffer)] = produced["data"]
             /\ payload' = payload
             /\ recv' = recv
             /\ ~bcast'["data"].started
             /\ b_pc'["data"] = "loop"
       /\ (/\ b_pc["video"] = "clients_test"
           /\ b_pc'["video"] # "clients_test"
           /\ clients["video"] = <<>>)
          => /\ produced' = produced
             /\ payload' = payload
             /\ recv' = recv
             /\ ~bcast'["video"].started
             /\ b_pc'["video"] = "loop"]_vars

\* Two telemetry cycles have run to their end without a client: the
\* snapshot of the second is in the buffer and nothing was sent.
C16_Witness ==
    /\ b_pc["data"] = "loop"
    /\ cycle_steps = <<"read", "condition", "classify", "append",
                       "broadcast">>
    /\ appended = 2
    /\ waveform_buffer[Len(waveform_buffer)] = 2
    /\ clients["data"] = <<>>
    /\ registered["data"] = {}
    /\ \A c \in 1..MaxConn : recv["data"][c] = <<>>

\* C17: a failed session setup, sensor read or capture does not end the
\* loop of its broadcaster: as long as the service is running (is_running
\* is set) neither broadcaster thread has left its loop for good.
C17_LoopSurvivesErrors ==
    \A ch \in Channels :
        is_running => b_pc[ch] \notin {"finally", "done"}

\* C18: the filter cascade does not raise on a degenerate window (all zero,
\* or shorter than the window_length of the smoothing stage): whatever
\* window the sensor read returned, the cycle goes on from the cascade to
\* append its snapshot to the history and to the broadcast.
C18_CascadeNeverRaises ==
    [][(b_pc["data"] = "process" /\ b_pc'["data"] # "process")
          => /\ b_pc'["data"] = "send"
             /\ appended' = appended + 1
             /\ waveform_buffer' # <<>>
             /\ waveform_buffer'[Len(waveform_buffer')] = produced["data"]]_vars

\* C19: when the service started through main() has been interrupted
\* while running and main() is over, the shutdown path stop() has been
\* executed exactly once.
C19_StopRunsOnce ==
    m_pc = "exited" => stop_calls = 1

\* C20: stop() runs to its end without raising, whichever handles are set
\* (camera, sensor session, listening sockets, clients) and whichever of
\* its close and stop calls fail: no exception leaves it, and once called
\* the main thread is in one of its phases or past its end.
C20_StopCompletes ==
    /\ m_pc # "stop_raised"
    /\ stop_calls > 0 =>
          m_pc \in {"stop_clients", "stop_sockets", "stop_devices",
                    "start_returned", "exited"}

\* A call of stop() has returned to start() with the camera handle set, the
\* sensor session never acquired, one listening socket never created and
\* the other closed with a client in its registry.
C20_Witness ==
    /\ m_pc = "start_returned"
    /\ camera = "stopped"
    /\ radar_client = "None"
    /\ \E ch \in Channels : server_socket[ch] = "None"
    /\ \E ch \in Channels :
          /\ server_socket[ch] = "closed"
          /\ clients[ch] # <<>>
          /\ Range(clients[ch]) \subseteq closed[ch]

\* A call of stop() has run to its end.
StopCompleted == m_pc \in {"start_returned", "exited"}

\* C21: shutdown goes in this order: the listening sockets are closed
\* first, then the registered clients, then the broadcaster loops are
\* stopped, and only then the sensor and the camera are released: when
\* stop() closes the clients no listener is listening any more, and no
\* device has had its stop call while its broadcaster thread has not ended.
C21_ShutdownOrder ==
    /\ [][(m_pc = "stop_clients" /\ m_pc' # m_pc)
             => \A ch \in Channels : server_socket[ch] # "listening"]_vars
    /\ [](camera = "stopped" => b_pc["video"] \in {"unstarted", "done"})
    /\ [](radar_client = "stopped" => b_pc["data"] \in {"unstarted", "done"})

\* C22: startup goes in this order: the sensor session and the camera are
\* acquired first, then the acceptors are started, then the broadcaster
\* loops: whenever an acceptor accepts a connection the camera has been
\* started and the sensor session set up.
C22_StartupOrder ==
    [][accepted' # accepted
          => camera = "started" /\ radar_client = "session"]_vars

\* C23: once stop() has completed both registries are empty and every
\* connection that was ever accepted is closed.
C23_StopClearsAll ==
    StopCompleted =>
        \A ch \in Channels :
            /\ clients[ch] = <<>>
            /\ (1..accepted[ch]) \subseteq closed[ch]

\* C24: after the shutdown path has completed no new accept, registration,
\* sensor read, capture or broadcast is started.
C24_NoWorkAfterStop ==
    [][StopCompleted =>
          /\ accepted' = accepted
          /\ registered' = registered
          /\ produced' = produced
          /\ \A ch \in Channels :
                bcast'[ch].started => bcast[ch].started]_vars

C26_BindFatalAcceptBackoff ==
    /\ [](\A ch \in Channels :
            server_socket[ch] = "unbound" => m_pc # "running")
    /\ [][\A ch \in Channels :
            (a_pc[ch] = "accept" /\ a_pc'[ch] # "accept"
                /\ accepted'[ch] = accepted[ch])
            => a_pc'[ch] = "backoff"]_vars

\* A WIDTHxHEIGHT string: digits, one "x", digits.
WellFormed(arg) ==
    \E i \in 2..(Len(arg) - 1) :
        /\ arg[i] = "x"
        /\ \A j \in (1..Len(arg)) \ {i} : arg[j] \in Digits

\* C27: a --resolution string that is not a valid WIDTHxHEIGHT string is
\* fatal: main() gets no further than the parsing, or has exited with a
\* non-zero status; the server is neither constructed nor started.
C27_BadResolutionFatal ==
    ~WellFormed(args_resolution) =>
        \/ main_pc = "parse"
        \/ main_pc = "exit" /\ exit_status # "0"

\* The population variance of w exceeds v (n times the sum of the squares
\* less the square of the sum, against v times n squared).
PopVarianceAbove(w, v) ==
    Len(w) * Sum([i \in 1..Len(w) |-> w[i] * w[i]]) - Sum(w) * Sum(w)
        > v * Len(w) * Len(w)

\* C28: the tags of a cycle are a function of its cleaned window alone:
\* "Child in motion" exactly when the population standard deviation is
\* strictly above 0.05 (the variance above 0.0025), "Child not moving"
\* exactly when every sample is strictly below 0.02 in magnitude; a
\* variability of 0.10 is above the first threshold and a peak of 0.01
\* below the second.
C28_Classification ==
    /\ 10 > motion_threshold /\ 1 < no_movement_threshold
    /\ motion_state # "none" =>
        /\ motion_state \in {"Child in motion", "Stable breathing waveform"}
        /\ alert \in {"Child not moving", "Normal"}
        /\ motion_state = "Child in motion"
              <=> PopVarianceAbove(cleaned_waveform, 25)
        /\ alert = "Child not moving"
              <=> \A i \in 1..Len(cleaned_waveform) :
                      /\ cleaned_waveform[i] < 2
                      /\ cleaned_waveform[i] > -2

\* A window whose standard deviation is exactly 0.05 and whose peak is
\* 0.05 has been classified stable and normal.
C28_Witness ==
    /\ cleaned_waveform = <<5, -5>>
    /\ motion_state = "Stable breathing waveform"
    /\ alert = "Normal"

\* C29: the alert sink does not block the telemetry loop: a cycle that
\* raises an alert is followed by a state in which its notification is
\* under way and the loop is at its next sensor read.
C29_NotifyAsynchronous ==
    (mon_pc = "send" /\ alert = "Child not moving")
        ~> (notifying /\ mon_pc = "read")

\* The rates of a history that are numbers.
Numbers(history) == {i \in 1..Len(history) : history[i] # NaN}

\* The text the claim gives for a result.
TextFor(result) ==
    LET r == result.breathing_result IN
    CASE result.app_state = "NO_PRESENCE_DETECTED" -> "No presence detected"
      [] result.app_state = "DETERMINE_DISTANCE_ESTIMATE"
            -> "Determining distance with presence"
      [] result.app_state = "INTRA_PRESENCE_DETECTED" -> "Motion detected"
      [] result.app_state = "ESTIMATE_BREATHING_RATE"
            -> IF r.exists /\ ~r.has_rate
               THEN "Initializing breathing detection"
               ELSE IF r.exists /\ Numbers(r.history) # {}
                    THEN "Breathing rate: "
                    ELSE "Presence detected"
      [] OTHER -> ""

\* An iteration of the loop has completed.
IterationDone == app_pc = "loop" /\ ref_app_result # NoResult

\* C30: every iteration that completes has sent exactly one line, ended by
\* a newline, whose text is the one the claim gives for the iteration's
\* result; a breathing-rate line carries the last rate of the history that
\* is a number, to one decimal, followed by " bpm", and no other line
\* carries a value.
C30_OneStatusLine ==
    IterationDone =>
        /\ Len(sent) = 1
        /\ sent[1].end = "\n"
        /\ sent[1].message.text = TextFor(ref_app_result)
        /\ LET h == ref_app_result.breathing_result.history
               last == CHOOSE i \in Numbers(h) : \A j \in Numbers(h) : j <= i
           IN  IF sent[1].message.text = "Breathing rate: "
               THEN /\ sent[1].message.value
                          = <<h[last] \div 10, h[last] % 10>>
                    /\ sent[1].message.unit = " bpm"
               ELSE /\ sent[1].message.value = <<>>
                    /\ sent[1].message.unit = ""

\* An iteration has sent "Breathing rate: 14.2 bpm" for a history that
\* ends with a NaN.
C30_Witness ==
    /\ IterationDone
    /\ ref_app_result.breathing_result.history = <<142, NaN>>
    /\ sent = <<line_of([text |-> "Breathing rate: ", value |-> <<14, 2>>,
                          unit |-> " bpm"])>>

\* C31: in every reachable state of the alarm
\* 0 <= validation_count <= pendingLimit + activeLimit.
C31_CountInRange ==
    /\ validation_count >= 0
    /\ validation_count <= thresholds.pending + thresholds.active

\* An update has taken the counter to pendingLimit + activeLimit, above
\* pendingLimit, and the next update with label "NoMovement" left it there.
C31_Witness ==
    /\ op.name = "update_alarm_state"
    /\ pre.pending_state = "NoMovement"
    /\ thresholds.active > 0
    /\ pre.validation_count = thresholds.pending + thresholds.active
    /\ validation_count = thresholds.pending + thresholds.active

\* C32 as stated: after any update made while the active label is not
\* "NoMovement", validation_count <= pendingLimit.
C32_CapOfThisUpdate_AsStated ==
    (op.name = "update_alarm_state" /\ pre.active_state # "NoMovement")
        => validation_count <= thresholds.pending

\* C32: an update made while the active label is not "NoMovement" never
\* takes the counter above pendingLimit: a counter at or below pendingLimit
\* stays at or below it, and a counter above it (left there by updates made
\* under the active label "NoMovement") does not increase.
C32_CapOfThisUpdate ==
    (op.name = "update_alarm_state" /\ pre.active_state # "NoMovement")
        => /\ pre.validation_count <= thresholds.pending
                => validation_count <= thresholds.pending
           /\ pre.validation_count > thresholds.pending
                => validation_count <= pre.validation_count

\* An update under an active label other than "NoMovement" found the
\* counter above pendingLimit and left it there.
C32_Witness ==
    /\ op.name = "update_alarm_state"
    /\ pre.active_state # "NoMovement"
    /\ pre.pending_state = "NoMovement"
    /\ pre.validation_count > thresholds.pending
    /\ validation_count = pre.validation_count

\* C33 as stated: alarm_armed and alarm_active are never both true.
C33_ArmedExcludesActive_AsStated == ~(alarm_armed /\ alarm_active)

\* C33: activation disarms: right after an update whose activation test
\* holds the alarm is active and not armed; the two flags become true
\* together only by a call of arm_alarm on an active alarm.
C33_ArmedExcludesActive ==
    /\ []((op.name = "update_alarm_state"
            /\ validation_count >= thresholds.validation)
           => alarm_active /\ ~alarm_armed)
    /\ [][(~(alarm_armed /\ alarm_active) /\ alarm_armed' /\ alarm_active')
            => op'.name = "arm_alarm" /\ alarm_active]_vars

\* An armed alarm has just been activated and disarmed by an update.
C33_Witness ==
    /\ op.name = "update_alarm_state"
    /\ pre.alarm_armed /\ ~pre.alarm_active
    /\ alarm_active /\ ~alarm_armed

\* C34: the population standard deviation of a window never exceeds its
\* largest magnitude, so no window is tagged both "Child in motion" and
\* "Child not moving": a cycle tagged "Child in motion" has alert "Normal".
C34_TagsNotIndependent ==
    motion_state # "none" =>
        /\ \A i \in 1..Len(cleaned_waveform) :
              (\A j \in 1..Len(cleaned_waveform) :
                    Abs(cleaned_waveform[j]) <= Abs(cleaned_waveform[i]))
                 => ~std_above(cleaned_waveform, Abs(cleaned_waveform[i]))
        /\ ~(motion_state = "Child in motion" /\ alert = "Child not moving")
        /\ motion_state = "Child in motion" => alert = "Normal"

\* A window with a sample of magnitude below 0.02 has been tagged
\* "Child in motion", with alert "Normal".
C34_Witness ==
    /\ cleaned_waveform = <<7, -7, 0>>
    /\ motion_state = "Child in motion"
    /\ alert = "Normal"

\* C35: no listening socket leaks at shutdown: once stop() has returned
\* and the acceptor thread of a channel has finished, the channel's
\* listening socket is not left open.
C35_NoListenerLeak ==
    \A ch \in Channels :
        (StopCompleted /\ a_pc[ch] = "done")
            => server_socket[ch] # "listening"

\* C36: VideoStreaming reconnects: whenever start_streaming is waiting
\* for a connection, before or after a client has been streamed to, the
\* listening socket is listening and the camera is started.
C36_StreamingReconnects ==
    vs_pc = "accept" =>
        vs_server_socket = "listening" /\ vs_camera = "started"

\* C37: sandbox/breathing_app.py reconnects: whenever main() waits for a
\* connection the listening socket is listening, and the listening socket
\* is closed only once the exit handler has ended the process.
C37_SessionReconnects ==
    /\ sb_pc = "wait" => sb_server = "listening"
    /\ sb_server = "closed" => sb_pc = "exited"

\* Every line sent for the picked result is the line first sent for it,
\* whatever the cycles in between were.
SameResultSameLine ==
    (sb_pc = "sent" /\ sb_result = probe)
        => sb_sent = probe_line

\* A cycle that has its result goes on to send a line.
ComposedCycleSends ==
    [][sb_pc = "compose" => sb_pc' \in {"compose", "send"}]_vars

\* C38: the line sent in a cycle is determined by that cycle's result
\* alone (two cycles with the same result send the same line), and every
\* cycle that has a result, the first of a session included, sends a line.
C38_LineOfResultAlone == []SameResultSameLine /\ ComposedCycleSends

\* A cycle that has read and classified a sweep completes its sends: it
\* does not leave the send step through the except branch.
ReadCycleSends ==
    [][mon_pc = "send" => mon_pc' # "except"]_vars

\* A cycle that raised runs cleanup, which clears the sensor session and
\* the connection, and then waits.
RaisedCycleCleansUp ==
    [][mon_pc = "except" =>
          (client' = "None" /\ conn' = "None" /\ mon_pc' = "sleep")]_vars

\* C39: every cycle of get_breathing_data that reads a sweep sends the
\* status to the client (and notifies when the alert is not "Normal"); a
\* cycle that raises runs cleanup and the loop retries, with a sensor
\* session in place at every read.
C39_CycleSendsOrCleansUp ==
    /\ ReadCycleSends
    /\ RaisedCycleCleansUp
    /\ [](mon_pc = "read" => client # "None")

(***************************************************************************)
(* Properties of the two broadcasters side by side (checked under SpecBoth)*)
(***************************************************************************)

\* All that belongs to channel ch: its listening socket, registry,
\* connections, acceptor, handlers and broadcaster.
ChanState(ch) ==
    <<server_socket[ch], clients[ch], a_pc[ch], handlers[ch], b_pc[ch],
      payload[ch], send_i[ch], disconnected_clients[ch], accepted[ch],
      closed[ch], recv[ch], produced[ch], registered[ch], bcast[ch]>>

\* A step of the telemetry thread / of the video thread.
TelemetryStep ==
    \/ setup_radar_client \/ telemetry_loop_test \/ get_next
    \/ get_next_error \/ process_sweep \/ send_breathing_data_to_clients
    \/ send_to_client("data") \/ remove_disconnected("data")
    \/ telemetry_finally

VideoStep ==
    \/ video_loop_test \/ video_clients_test \/ capture_frame
    \/ capture_error \/ send_to_client("video")
    \/ remove_disconnected("video")

\* The telemetry thread / the video thread has been started, has not ended
\* and is not blocked in a write of its own.
TelemetryRunnable ==
    b_pc["data"] \in {"setup", "loop", "get_next", "process", "send",
                      "send_loop", "remove", "finally"}

VideoRunnable ==
    b_pc["video"] \in {"loop", "clients_test", "capture", "send_loop",
                       "remove"}

\* C15: the two broadcasters do not block or disturb each other.  Whatever
\* the video thread is doing (blocked in a capture or a write, or ended)
\* the telemetry thread can take its next step, and the other way round;
\* and no step of a thread other than the main thread changes anything of
\* both channels: the registry, connections and streams of a channel change
\* only by steps of that channel's own threads, and the telemetry buffer
\* never by a step that touches the video channel.
C15_BroadcastersIndependent ==
    /\ [](TelemetryRunnable => ENABLED TelemetryStep)
    /\ [](VideoRunnable => ENABLED VideoStep)
    /\ [][m_pc' = m_pc =>
            /\ \/ ChanState("data")' = ChanState("data")
               \/ ChanState("video")' = ChanState("video")
            /\ \/ <<waveform_buffer, appended>>' = <<waveform_buffer, appended>>
               \/ ChanState("video")' = ChanState("video")]_vars

\* The telemetry thread has completed the broadcast of a cycle to its
\* client, which is still registered, and the video thread is blocked in a
\* write to a video client.
C15_Witness ==
    /\ focus = "both"
    /\ bcast["data"].done
    /\ recv["data"][1] = <<WholeFrame(1)>>
    /\ Range(clients["data"]) = {1}
    /\ b_pc["video"] = "send_stalled"

=============================================================================
